---- MODULE Spec2Model ----
(***************************************************************************)
(* A model of the BaapTubeX download service: the retry orchestrator and   *)
(* the retrieval strategies of utils/downloader.py, the in-memory artifact *)
(* cache, and the /download, /formats and /health handlers of main.py      *)
(* running on one asyncio event loop.                                      *)
(*                                                                         *)
(* Time is counted in seconds.  A file of the download directory is a      *)
(* record [size, mtime]; size 0 is a zero-byte file, size 1 a file with    *)
(* content.  A path is a triple <<kind, url, n>>: the url stands for the   *)
(* title or the md5 prefix the code derives from it, n for the timestamp   *)
(* or the uniqueness counter in the name.                                  *)
(***************************************************************************)
EXTENDS Integers, Sequences, FiniteSets, TLC

VARIABLES
    video_cache,    \* downloader.video_cache: cache key -> [path, timestamp]
    fs,             \* the download directory: path -> [size, mtime]
    now,            \* time.time() / datetime.now(), in seconds
    pc,             \* position of the running download_with_retry call
    url,            \* its url argument
    format_code,    \* its format_code argument
    max_retries,    \* its max_retries argument
    retry_count,    \* download_with_retry.retry_count
    last_error,     \* download_with_retry.last_error
    exc,            \* the exception in flight (e of download_video_improved)
    ts,             \* int(time.time()) taken by the separate-tracks path
    dfmt,           \* format_code parameter of direct_youtube_download
    result,         \* the path returned by the call
    raised,         \* the exception raised by the call
    trace,          \* the strategies the current attempt has run, in order
    log,            \* the attempts and sleeps of the call so far, in order
    attempts,       \* number of download_video_improved invocations so far
    loop,           \* the request whose handler holds the asyncio event loop
                    \* (its index in reqs), 0 when the loop is free
    reqs,           \* the HTTP requests received, in arrival order
    rate_limit_store,   \* main.rate_limit_store: ip -> [count, timestamp]
    suspicious_ips,     \* main.suspicious_ips: ip -> count
    next_sweep,     \* when cleanup_old_files wakes from asyncio.sleep(1800)
    ticks,          \* number of times the clock was advanced from outside
    deletes,        \* number of files deleted from outside the program
    query           \* a catalog query or format selection made on its own:
                    \* [at, run, run2, format_code, catalog, token]

retryVars == <<pc, url, format_code, max_retries, retry_count, last_error,
               exc, ts, dfmt, result, raised, trace, log, attempts>>
serverVars == <<loop, reqs, rate_limit_store, suspicious_ips, next_sweep>>
envVars == <<ticks, deletes, query>>
vars == <<video_cache, fs, now, retryVars, serverVars, envVars>>

(***************************************************************************)
(* Bounds of the model.                                                    *)
(***************************************************************************)
MaxAttempts == 2
MaxRetriesArg == 2
MaxTicks == 3
MaxDeletes == 1
MaxRequests == 2
MaxDownloads == 1
MaxSuspicion == 1
MaxLines == 2

(***************************************************************************)
(* A string is a sequence of characters (a url: of the pieces the code     *)
(* tells apart), so that concatenation, replace and isdigit are computed   *)
(* as the code computes them.                                              *)
(***************************************************************************)
BEST == <<"b", "e", "s", "t">>
F720 == <<"7", "2", "0">>
URL1 == <<"https://www.youtube.com/watch?v=", "ABCDEFGHIJK">>

URLs == {URL1}
Formats == {BEST, F720}

Digits == {"0", "1", "2", "3", "4", "5", "6", "7", "8", "9"}
DigitVal(c) ==
    CASE c = "0" -> 0 [] c = "1" -> 1 [] c = "2" -> 2 [] c = "3" -> 3
      [] c = "4" -> 4 [] c = "5" -> 5 [] c = "6" -> 6 [] c = "7" -> 7
      [] c = "8" -> 8 [] c = "9" -> 9

\* Characters for which str.isdigit() is true and which int() does not
\* accept: the superscript digits, here U+00B2.
OtherDigits == {"SUPERSCRIPT TWO"}

\* str.isdigit(): at least one character, and every character a digit
isdigit(s) == Len(s) > 0 /\ \A i \in 1..Len(s) : s[i] \in Digits \cup OtherDigits

\* int(s) returns: s is a string of decimal digits.  On every other string
\* of this model (none has blanks, a sign or underscores) int(s) raises
\* ValueError.
IntParses(s) == Len(s) > 0 /\ \A i \in 1..Len(s) : s[i] \in Digits

\* int(s), where it returns
RECURSIVE int(_)
int(s) == IF Len(s) = 0 THEN 0
          ELSE int(SubSeq(s, 1, Len(s) - 1)) * 10 + DigitVal(s[Len(s)])

\* s.replace(old, ""): every non-overlapping occurrence, left to right
RECURSIVE replace(_, _)
replace(s, old) ==
    IF Len(s) < Len(old) THEN s
    ELSE IF SubSeq(s, 1, Len(old)) = old
         THEN replace(SubSeq(s, Len(old) + 1, Len(s)), old)
         ELSE <<s[1]>> \o replace(Tail(s), old)

\* sub in s
In(sub, s) ==
    \E i \in 1..(Len(s) - Len(sub) + 1) : SubSeq(s, i, i + Len(sub) - 1) = sub

\* s.count(c) for a character c
Count(s, c) == Cardinality({i \in 1..Len(s) : s[i] = c})

\* s.lower(), on the letters the extractor lines of this model carry
lower(s) ==
    [i \in 1..Len(s) |->
        CASE s[i] = "M" -> "m" [] s[i] = "P" -> "p" [] s[i] = "V" -> "v"
          [] OTHER -> s[i]]

(***************************************************************************)
(* Program constants.                                                      *)
(***************************************************************************)
CACHE_TTL == 86400
RATE_LIMIT == 5
RATE_WINDOW == 60
HANDLER_MAX_RETRIES == 3
SWEEP_AGE == 7200
SWEEP_INTERVAL == 1800

NoPath == <<"none", <<>>, 0>>
NoError == [msg |-> "None", ff |-> FALSE, att |-> 0]

TitlePath(u, k) == <<"title", u, k>>
TempVideo(u, t) == <<"video", u, t>>
TempAudio(u, t) == <<"audio", u, t>>
CombinedTmp(u, t) == <<"combined", u, t>>
HashPath(u) == <<"hash", u, 0>>
SimplePath(u, t) == <<"simple", u, t>>
DirectPath(u, t) == <<"download", u, t>>
StreamPath(u, t) == <<"stream", u, t>>

(***************************************************************************)
(* The file system calls the code makes.                                   *)
(***************************************************************************)
Exists(f, p) == p \in DOMAIN f
GetSize(f, p) == f[p].size
NonEmpty(f, p) == Exists(f, p) /\ GetSize(f, p) > 0
Remove(f, p) == [q \in DOMAIN f \ {p} |-> f[q]]
RemoveIfExists(f, ps) == [q \in DOMAIN f \ ps |-> f[q]]
WriteFile(f, p, sz, t) ==
    [q \in DOMAIN f \cup {p} |-> IF q = p THEN [size |-> sz, mtime |-> t] ELSE f[q]]
Rename(f, src, dst) ==
    [q \in (DOMAIN f \ {src}) \cup {dst} |-> IF q = dst THEN f[src] ELSE f[q]]

\* What one run of the extractor leaves at its output path.
Outcomes == {"none", "empty", "data"}
Produce(f, p, oc, t) ==
    CASE oc = "none" -> f
      [] oc = "empty" -> WriteFile(f, p, 0, t)
      [] oc = "data" -> WriteFile(f, p, 1, t)

(***************************************************************************)
(* The artifact cache.                                                     *)
(***************************************************************************)
cache_key(u, f) == u \o <<"_">> \o f

\* datetime.now() - cache_entry["timestamp"] < timedelta(hours=24)
FreshInclusive(entry, t) == t - entry.timestamp <= CACHE_TTL
Fresh(entry, t) == t - entry.timestamp < CACHE_TTL

\* A lookup that trusts the index without looking at the file.
get_cached_unverified(cache, f, t, u, fc) ==
    LET k == cache_key(u, fc) IN
    IF k \in DOMAIN cache /\ Fresh(cache[k], t)
    THEN cache[k].path
    ELSE NoPath

get_cached_video(cache, f, t, u, fc) ==
    LET k == cache_key(u, fc) IN
    IF k \in DOMAIN cache /\ Exists(f, cache[k].path) /\ Fresh(cache[k], t)
    THEN cache[k].path
    ELSE NoPath

cache_video(cache, t, u, fc, p) ==
    LET k == cache_key(u, fc) IN
    [q \in DOMAIN cache \cup {k} |->
        IF q = k THEN [path |-> p, timestamp |-> t] ELSE cache[q]]

(***************************************************************************)
(* download_with_retry                                                     *)
(***************************************************************************)
Event(o, a) == [op |-> o, arg |-> a]
Err(m, f) == [msg |-> m, ff |-> f, att |-> retry_count + 1]

Pow2(n) == IF n = 0 THEN 1 ELSE 2 ^ n

\* A call of download_with_retry(url, format_code, max_retries).
Call ==
    /\ pc \in {"idle", "returned", "raised"}
    /\ \E u \in URLs, f \in Formats, n \in 0..MaxRetriesArg :
        /\ url' = u
        /\ format_code' = f
        /\ max_retries' = n
    /\ retry_count' = 0
    /\ last_error' = NoError
    /\ exc' = NoError
    /\ ts' = 0
    /\ dfmt' = BEST
    /\ result' = NoPath
    /\ raised' = NoError
    /\ trace' = <<>>
    /\ log' = <<>>
    /\ pc' = "loop"
    /\ UNCHANGED <<video_cache, fs, now, attempts>>

\* A loop that tests its condition after the first attempt.
LoopTestAfterAttempt ==
    /\ pc = "loop"
    /\ IF retry_count < max_retries \/ retry_count = 0
       THEN /\ attempts < MaxAttempts
            /\ attempts' = attempts + 1
            /\ pc' = "improved"
            /\ log' = Append(log, Event("attempt", retry_count + 1))
            /\ trace' = <<>>
            /\ UNCHANGED raised
       ELSE /\ pc' = "raised"
            /\ raised' = IF last_error = NoError
                         THEN [msg |-> "TypeError", ff |-> FALSE, att |-> 0]
                         ELSE last_error
            /\ UNCHANGED <<trace, log, attempts>>
    /\ exc' = NoError
    /\ ts' = 0
    /\ dfmt' = BEST
    /\ UNCHANGED <<video_cache, fs, now, url, format_code, max_retries,
                   retry_count, last_error, result>>

\* while retry_count < max_retries: ... ; raise last_error
LoopTest ==
    /\ pc = "loop"
    /\ IF retry_count < max_retries
       THEN /\ attempts < MaxAttempts
            /\ attempts' = attempts + 1
            /\ pc' = "improved"
            /\ log' = Append(log, Event("attempt", retry_count + 1))
            /\ trace' = <<>>
            /\ UNCHANGED raised
       ELSE /\ pc' = "raised"
            /\ raised' = IF last_error = NoError
                         THEN [msg |-> "TypeError", ff |-> FALSE, att |-> 0]
                         ELSE last_error
            /\ UNCHANGED <<trace, log, attempts>>
    /\ exc' = NoError
    /\ ts' = 0
    /\ dfmt' = BEST
    /\ UNCHANGED <<video_cache, fs, now, url, format_code, max_retries,
                   retry_count, last_error, result>>

\* last_error = e: the error kept is the one of the attempt that just failed.
KeepFirstError(last, e) == IF last = NoError THEN e ELSE last
RecordError(last, e) == e

\* except Exception as e: last_error = e; retry_count += 1; wait_time = ...
AttemptFailed ==
    /\ pc = "failed"
    /\ last_error' = RecordError(last_error, exc)
    /\ retry_count' = retry_count + 1
    /\ pc' = "sleep"
    /\ UNCHANGED <<video_cache, fs, now, url, format_code, max_retries,
                   exc, ts, dfmt, result, raised, trace, log, attempts>>

\* wait_time = 2 ** retry_count, computed after retry_count += 1
WaitBeforeIncrement == Pow2(retry_count - 1)
wait_time == Pow2(retry_count)

\* time.sleep(wait_time)
Sleep ==
    /\ pc = "sleep"
    /\ now' = now + wait_time
    /\ log' = Append(log, Event("sleep", wait_time))
    /\ pc' = "loop"
    /\ UNCHANGED <<video_cache, fs, url, format_code, max_retries, retry_count,
                   last_error, exc, ts, dfmt, result, raised, trace, attempts>>

(***************************************************************************)
(* download_video_improved and the strategies it runs.                     *)
(***************************************************************************)
\* return <path> out of download_video_improved and so out of the retry loop
Return(p) ==
    /\ pc' = "returned"
    /\ result' = p

\* An exception leaving download_video_improved (raise e at its end).
Raise(e) ==
    /\ pc' = "failed"
    /\ exc' = e

\* cached_path = get_cached_video(url, format_code); if cached_path: return
ImprovedStart ==
    /\ pc = "improved"
    /\ LET cached == get_cached_video(video_cache, fs, now, url, format_code) IN
       IF cached # NoPath
       THEN /\ Return(cached)
            /\ trace' = Append(trace, Event("cache_hit", 0))
       ELSE /\ pc' = "combined"
            /\ UNCHANGED <<result, trace>>
    /\ UNCHANGED <<video_cache, fs, now, url, format_code, max_retries,
                   retry_count, last_error, exc, ts, dfmt, raised, log, attempts>>

\* except Exception as first_error, in download_video: the next thing tried
\* is the simpler format, still inside download_video.
SkipSingleStream == "separate"
AfterCombinedFailed == "single"

\* download_video: the cache lookup, then the combined video+audio format.
\* The extractor raises, or leaves nothing, a zero-byte file or a file at
\* <title>.mp4; the file counts only if it exists with size > 0.
CombinedStep ==
    /\ pc = "combined"
    /\ LET cached == get_cached_video(video_cache, fs, now, url, format_code)
           filename == TitlePath(url, 0) IN
       IF cached # NoPath
       THEN /\ Return(cached)
            /\ trace' = Append(trace, Event("cache_hit", 0))
            /\ UNCHANGED <<video_cache, fs>>
       ELSE /\ trace' = Append(trace, Event("combined", 0))
            /\ \/ /\ pc' = AfterCombinedFailed
                  /\ UNCHANGED <<video_cache, fs, result>>
               \/ \E oc \in Outcomes :
                    LET fs1 == Produce(fs, filename, oc, now) IN
                    /\ fs' = fs1
                    /\ IF NonEmpty(fs1, filename)
                       THEN /\ video_cache' = cache_video(video_cache, now, url,
                                                          format_code, filename)
                            /\ Return(filename)
                       ELSE /\ pc' = AfterCombinedFailed
                            /\ UNCHANGED <<video_cache, result>>
    /\ UNCHANGED <<now, url, format_code, max_retries, retry_count, last_error,
                   exc, ts, dfmt, raised, log, attempts>>

\* download_video, after the first attempt failed: the single pre-muxed
\* format 'best[ext=mp4]/best'.  A failure here leaves download_video and is
\* caught by download_video_with_audio_fallback.
SingleStep ==
    /\ pc = "single"
    /\ LET filename == TitlePath(url, 0) IN
       /\ trace' = Append(trace, Event("single_stream", 0))
       /\ \/ /\ pc' = "separate"
             /\ UNCHANGED <<video_cache, fs, result>>
          \/ \E oc \in Outcomes :
               LET fs1 == Produce(fs, filename, oc, now) IN
               /\ fs' = fs1
               /\ IF NonEmpty(fs1, filename)
                  THEN /\ video_cache' = cache_video(video_cache, now, url,
                                                     format_code, filename)
                       /\ Return(filename)
                  ELSE /\ pc' = "separate"
                       /\ UNCHANGED <<video_cache, result>>
    /\ UNCHANGED <<now, url, format_code, max_retries, retry_count, last_error,
                   exc, ts, dfmt, raised, log, attempts>>

\* download_video_improved's handler of an exception e leaving
\* download_video_with_audio_fallback: download_simple when str(e) mentions
\* FFmpeg, the direct command line otherwise.
AfterFallbackFailed(e) ==
    /\ exc' = e
    /\ pc' = IF e.ff THEN "simple" ELSE "direct"
    /\ dfmt' = format_code

\* except Exception as e2 of the separate-tracks path: the temporary files
\* that exist are removed and e2 is raised again.
\* A clean-up that forgets the audio file.
CleanupVideoOnly(f, t) ==
    RemoveIfExists(f, {TempVideo(url, t), CombinedTmp(url, t)})

Cleanup(f, t) ==
    RemoveIfExists(f, {TempVideo(url, t), TempAudio(url, t), CombinedTmp(url, t)})

\* download_video_with_audio_fallback after download_video raised: the
\* video-only and the audio-only download into temporary files.
SeparateStep ==
    /\ pc = "separate"
    /\ ts' = now
    /\ LET v == TempVideo(url, now)
           a == TempAudio(url, now) IN
       \/ \* the video download raises
          \E f \in BOOLEAN :
             /\ fs' = Cleanup(fs, now)
             /\ AfterFallbackFailed(Err("extractor", f))
             /\ trace' = Append(trace, Event("separate_tracks", 0))
             /\ UNCHANGED result
       \/ \E ocv \in Outcomes :
             LET fs1 == Produce(fs, v, ocv, now) IN
             \/ \* the audio download raises
                \E f \in BOOLEAN :
                   /\ fs' = Cleanup(fs1, now)
                   /\ AfterFallbackFailed(Err("extractor", f))
                   /\ trace' = Append(trace, Event("separate_tracks", 0))
                   /\ UNCHANGED result
             \/ \E oca \in {"none", "data"} :
                   LET fs2 == Produce(fs1, a, oca, now) IN
                   IF Exists(fs2, v) /\ Exists(fs2, a)
                   THEN /\ fs' = fs2
                        /\ pc' = "remux"
                        /\ trace' = trace \o <<Event("separate_tracks", 0),
                                                Event("both_tracks", GetSize(fs2, v))>>
                        /\ UNCHANGED <<exc, dfmt, result>>
                   ELSE IF NonEmpty(fs2, v)
                   THEN /\ fs' = Rename(fs2, v, HashPath(url))
                        /\ Return(HashPath(url))
                        /\ trace' = Append(trace, Event("separate_tracks", 0))
                        /\ UNCHANGED <<exc, dfmt>>
                   ELSE /\ fs' = Cleanup(fs2, now)
                        /\ AfterFallbackFailed(
                              Err("Failed to download video and audio files", FALSE))
                        /\ trace' = Append(trace, Event("separate_tracks", 0))
                        /\ UNCHANGED result
    /\ UNCHANGED <<video_cache, now, url, format_code, max_retries, retry_count,
                   last_error, raised, log, attempts>>

\* What the separate-tracks path does once ffmpeg has run, given how ffmpeg
\* ended: "rc_ok" (exit status 0), "rc_fail" (non-zero exit status) or
\* "exception" (it could not be invoked).  f is the directory after ffmpeg.
\* The value is [fs, path]; path = NoPath means the path raises
\* "Video file missing after download".
AfterFfmpegFailing(f, how, v, a, final) ==
    CASE how = "rc_ok" ->
            LET f1 == RemoveIfExists(f, {v, a}) IN
            IF Exists(f1, final) THEN [fs |-> f1, path |-> final]
            ELSE [fs |-> f1, path |-> NoPath]
      [] OTHER -> [fs |-> f, path |-> NoPath]

AfterFfmpeg(f, how, v, a, final) ==
    LET videoOnly == [fs |-> RemoveIfExists(Rename(f, v, final), {a}), path |-> final]
        missing == [fs |-> f, path |-> NoPath]
    IN
    CASE how = "rc_fail" ->
            \* os.rename raises when the video file is gone; the handler
            \* of the ffmpeg exception then finds no video file either
            IF Exists(f, v) THEN videoOnly ELSE missing
      [] how = "rc_ok" ->
            LET f1 == RemoveIfExists(f, {v, a}) IN
            IF Exists(f1, final) THEN [fs |-> f1, path |-> final]
            ELSE [fs |-> f1, path |-> NoPath]
      [] how = "exception" ->
            IF NonEmpty(f, v) THEN videoOnly ELSE missing

FfmpegEnds == {"rc_ok", "rc_fail", "exception"}
FfmpegCode(how) == CASE how = "rc_ok" -> 0 [] how = "rc_fail" -> 1 [] how = "exception" -> 2

\* Both temporary files exist: the title query, then the ffmpeg merge into
\* <title>.mp4.
RemuxStep ==
    /\ pc = "remux"
    /\ LET v == TempVideo(url, ts)
           a == TempAudio(url, ts)
           final == TitlePath(url, 0) IN
       \/ \* extract_info raises
          \E f \in BOOLEAN :
             /\ fs' = Cleanup(fs, ts)
             /\ AfterFallbackFailed(Err("extractor", f))
             /\ UNCHANGED <<result, trace>>
       \/ \E how \in FfmpegEnds, oc \in Outcomes :
             /\ how = "rc_ok" \/ oc = "none"
             /\ LET r == AfterFfmpeg(Produce(fs, final, oc, now), how, v, a, final) IN
                /\ trace' = Append(trace, Event("ffmpeg", FfmpegCode(how)))
                /\ IF r.path # NoPath
                   THEN /\ fs' = r.fs
                        /\ Return(r.path)
                        /\ UNCHANGED <<exc, dfmt>>
                   ELSE /\ fs' = Cleanup(r.fs, ts)
                        /\ AfterFallbackFailed(
                              Err("Video file missing after download", FALSE))
                        /\ UNCHANGED result
    /\ UNCHANGED <<video_cache, now, url, format_code, max_retries, retry_count,
                   last_error, ts, raised, log, attempts>>

\* The check download_video_improved makes on the path download_simple or
\* direct_youtube_download returned, before it caches and returns it.
Verified(f, p) == Exists(f, p) /\ GetSize(f, p) > 0

\* download_simple, tried when the error mentions FFmpeg.  Every failure
\* is swallowed (except Exception as e2: print) and the direct command line
\* is tried next.
SimpleStep ==
    /\ pc = "simple"
    /\ trace' = Append(trace, Event("simple", 0))
    /\ LET output_path == SimplePath(url, now) IN
       \/ \* subprocess.run(check=True) raises
          /\ pc' = "direct"
          /\ UNCHANGED <<video_cache, fs, result>>
       \/ \E oc \in Outcomes :
             LET fs1 == Produce(fs, output_path, oc, now) IN
             /\ fs' = fs1
             /\ IF NonEmpty(fs1, output_path) /\ Verified(fs1, output_path)
                THEN /\ video_cache' = cache_video(video_cache, now, url,
                                                   format_code, output_path)
                     /\ Return(output_path)
                ELSE /\ pc' = "direct"
                     /\ UNCHANGED <<video_cache, result>>
    /\ UNCHANGED <<now, url, format_code, max_retries, retry_count, last_error,
                   exc, ts, dfmt, raised, log, attempts>>

\* The first free name among <title>.mp4, <title>_1.mp4, <title>_2.mp4, ...
RECURSIVE UniqueTitle(_, _, _)
UniqueTitle(f, u, k) ==
    IF Exists(f, TitlePath(u, k)) THEN UniqueTitle(f, u, k + 1) ELSE TitlePath(u, k)

\* The mp4 files of the directory whose name starts with download_<url_hash>.
DirectCandidates(f, u) == {p \in DOMAIN f : p[1] = "download" /\ p[2] = u}

DestLines == {"none", "merged", "stream"}
TitleEnds == {"ok", "rc_fail", "exception"}

\* direct_youtube_download after the command ended with exit status 0:
\* the set of [fs, path] it can end with; path = NoPath means it raises
\* "Could not find downloaded file".  dest says which file the last
\* "Destination:" line of the output names (none, the merged output, or a
\* per-stream file that is gone after the merge), title how the title
\* query ended.
DirectFinish(f, u, t, dest, title) ==
    LET downloaded_file == IF dest = "merged" THEN DirectPath(u, t) ELSE StreamPath(u, t)
        final_path == UniqueTitle(f, u, 0)
        search == IF DirectCandidates(f, u) # {}
                  THEN {[fs |-> f, path |-> p] : p \in DirectCandidates(f, u)}
                  ELSE {[fs |-> f, path |-> NoPath]}
    IN
    IF dest = "none" THEN search
    ELSE CASE title = "ok" ->
                 IF Exists(f, downloaded_file)
                 THEN {[fs |-> Rename(f, downloaded_file, final_path), path |-> final_path]}
                 ELSE search
           [] title = "rc_fail" -> search
           [] title = "exception" ->
                 IF Exists(f, downloaded_file)
                 THEN {[fs |-> f, path |-> downloaded_file]}
                 ELSE search

\* direct_youtube_download trying the same format again after its command
\* failed, whatever the format.
DirectRetriesSameFormat ==
    /\ pc = "direct"
    /\ trace' = Append(trace, Event("direct", IF dfmt = BEST THEN 0 ELSE 1))
    /\ UNCHANGED <<video_cache, fs, pc, exc, result, dfmt>>
    /\ UNCHANGED <<now, url, format_code, max_retries, retry_count, last_error,
                   ts, raised, log, attempts>>

\* direct_youtube_download(url, "downloads", dfmt), and what
\* download_video_improved does with the path it returns.
DirectStep ==
    /\ pc = "direct"
    /\ trace' = Append(trace, Event("direct", IF dfmt = BEST THEN 0 ELSE 1))
    /\ \/ \* the command ends with a non-zero exit status
          IF dfmt # BEST
          THEN /\ dfmt' = BEST
               /\ UNCHANGED <<video_cache, fs, pc, exc, result>>
          ELSE /\ Raise(Err("Failed to download video", FALSE))
               /\ UNCHANGED <<video_cache, fs, dfmt, result>>
       \/ \E oc \in Outcomes, dest \in DestLines, title \in TitleEnds :
             \E r \in DirectFinish(Produce(fs, DirectPath(url, now), oc, now),
                                   url, now, dest, title) :
                /\ fs' = r.fs
                /\ UNCHANGED dfmt
                /\ IF r.path = NoPath
                   THEN /\ Raise(Err("Could not find downloaded file", FALSE))
                        /\ UNCHANGED <<video_cache, result>>
                   ELSE IF Verified(r.fs, r.path)
                   THEN /\ video_cache' = cache_video(video_cache, now, url,
                                                      format_code, r.path)
                        /\ Return(r.path)
                        /\ UNCHANGED exc
                   ELSE /\ Raise(Err("Downloaded file is empty or not found", FALSE))
                        /\ UNCHANGED <<video_cache, result>>
    /\ UNCHANGED <<now, url, format_code, max_retries, retry_count, last_error,
                   ts, raised, log, attempts>>

(***************************************************************************)
(* The environment: time passes, and a file of the download directory is   *)
(* deleted by something other than this process.                           *)
(***************************************************************************)
ClockSteps == {60, 86340}

Tick ==
    /\ ticks < MaxTicks
    /\ \E d \in ClockSteps : now' = now + d
    /\ ticks' = ticks + 1

ExternalDelete ==
    /\ deletes < MaxDeletes
    /\ \E p \in DOMAIN fs : fs' = Remove(fs, p)
    /\ deletes' = deletes + 1

(***************************************************************************)
(* The artifact cache on its own: cache_video as the strategies call it    *)
(* (on a file just verified), and get_cached_video.                        *)
(***************************************************************************)
\* if os.path.exists(filename) and os.path.getsize(filename) > 0:
\*     cache_video(url, format_code, filename)
CacheStore ==
    /\ \E u \in URLs, f \in Formats :
         \E p \in {TitlePath(u, 0), TitlePath(u, 1)} :
            /\ fs' = WriteFile(fs, p, 1, now)
            /\ video_cache' = cache_video(video_cache, now, u, f, p)
    /\ pc' = "idle"
    /\ result' = NoPath
    /\ UNCHANGED <<now, url, format_code>>

\* A lookup that deletes the entry it finds expired or without its file.
CacheLookupPurging ==
    /\ \E u \in URLs, f \in Formats :
         /\ url' = u
         /\ format_code' = f
         /\ result' = get_cached_video(video_cache, fs, now, u, f)
         /\ video_cache' =
               IF get_cached_video(video_cache, fs, now, u, f) = NoPath
               THEN [k \in DOMAIN video_cache \ {cache_key(u, f)} |-> video_cache[k]]
               ELSE video_cache
    /\ pc' = "looked"
    /\ UNCHANGED <<fs, now>>

\* cached_path = get_cached_video(url, format_code)
CacheLookup ==
    /\ \E u \in URLs, f \in Formats :
         /\ url' = u
         /\ format_code' = f
         /\ result' = get_cached_video(video_cache, fs, now, u, f)
    /\ pc' = "looked"
    /\ UNCHANGED <<video_cache, fs, now>>

\* The value of the last lookup says nothing about the state after a change.
ForgetLookup ==
    /\ pc' = "idle"
    /\ result' = NoPath
    /\ UNCHANGED <<url, format_code>>

\* (url, format_code) pairs whose texts hold the character "_": the same
\* video addressed with and without a trailing "_18", asked in the formats
\* "best", "18" and "18_best".
KeyPairs ==
    LET tail18 == <<"_", "1", "8">>
        f18 == <<"1", "8">>
    IN  { <<URL1, BEST>>, <<URL1, f18>>, <<URL1, f18 \o <<"_">> \o BEST>>,
          <<URL1 \o tail18, BEST>>, <<URL1 \o tail18, f18>> }

\* cache_video(url, format_code, filename) after a retrieval of the pair.
KeyStore ==
    /\ \E pr \in KeyPairs :
         /\ fs' = WriteFile(fs, TitlePath(pr[1], 0), 1, now)
         /\ video_cache' = cache_video(video_cache, now, pr[1], pr[2],
                                       TitlePath(pr[1], 0))
    /\ pc' = "idle"
    /\ result' = NoPath
    /\ UNCHANGED <<now, url, format_code>>

\* cached_path = get_cached_video(url, format_code) for one of the pairs.
KeyLookup ==
    /\ \E pr \in KeyPairs :
         /\ url' = pr[1]
         /\ format_code' = pr[2]
         /\ result' = get_cached_video(video_cache, fs, now, pr[1], pr[2])
    /\ pc' = "looked"
    /\ UNCHANGED <<video_cache, fs, now>>

cacheFrame == <<max_retries, retry_count, last_error, exc, ts, dfmt, raised,
                trace, log, attempts, serverVars>>

NextKeys ==
    \/ KeyStore /\ UNCHANGED <<cacheFrame, envVars>>
    \/ KeyLookup /\ UNCHANGED <<cacheFrame, envVars>>

NextCache ==
    \/ CacheStore /\ UNCHANGED <<cacheFrame, envVars>>
    \/ CacheLookup /\ UNCHANGED <<cacheFrame, envVars>>
    \/ Tick /\ ForgetLookup /\ UNCHANGED <<video_cache, fs, deletes, query, cacheFrame>>
    \/ ExternalDelete /\ ForgetLookup /\ UNCHANGED <<video_cache, now, ticks, query, cacheFrame>>

(***************************************************************************)
(* get_video_formats and get_best_available_format.  A run of the          *)
(* extractor ends with a non-zero status, fails to launch, or prints       *)
(* lines; a line is the sequence of its whitespace-separated parts.        *)
(***************************************************************************)
Auto == <<"A", "u", "t", "o">>
Unknown == <<"u", "n", "k", "n", "o", "w", "n">>
Unbound == <<>>
Entry(id, label) == [format_id |-> id, label |-> label]

F137_140 == <<"1", "3", "7", "+", "1", "4", "0">>
F136_140 == <<"1", "3", "6", "+", "1", "4", "0">>
F135_140 == <<"1", "3", "5", "+", "1", "4", "0">>
F134_140 == <<"1", "3", "4", "+", "1", "4", "0">>

AutoOnly == <<Entry(BEST, Auto)>>
DefaultCatalog ==
    <<Entry(BEST, Auto),
      Entry(F137_140, <<"1", "0", "8", "0", "p">>),
      Entry(F136_140, <<"7", "2", "0", "p">>),
      Entry(F135_140, <<"4", "8", "0", "p">>),
      Entry(F134_140, <<"3", "6", "0", "p">>)>>

\* The lines "[info] Available formats", "format code extension resolution
\* note" and "137 mp4 1920x1080 video only" of an extractor listing.
InfoLine == <<<<"[", "i", "n", "f", "o", "]">>, <<"A", "v", "a", "i", "l">>>>
HeaderLine ==
    <<<<"f", "o", "r", "m", "a", "t">>, <<"c", "o", "d", "e">>,
      <<"e", "x", "t">>, <<"n", "o", "t", "e">>>>
Line137 ==
    <<<<"1", "3", "7">>, <<"m", "p", "4">>,
      <<"1", "9", "2", "0", "x", "1", "0", "8", "0">>,
      <<"v", "i", "d", "e", "o">>, <<"o", "n", "l", "y">>>>

ExtractorRuns ==
    { [how |-> "rc_fail", lines |-> <<>>],
      [how |-> "raises", lines |-> <<>>],
      [how |-> "ok", lines |-> <<>>],
      [how |-> "ok", lines |-> <<InfoLine, HeaderLine, Line137>>] }

\* str(n)
RECURSIVE str(_)
str(n) ==
    LET d == CHOOSE c \in Digits : DigitVal(c) = n % 10
    IN  IF n < 10 THEN <<d>> ELSE str(n \div 10) \o <<d>>

\* the label chosen for the part "<width>x<height>"
Resolution(part) ==
    LET k == CHOOSE i \in 1..Len(part) : part[i] = "x"
        height == SubSeq(part, k + 1, Len(part))
    IN  IF ~IntParses(height) THEN part
        ELSE LET h == int(height)
             IN  IF h <= 144 THEN <<"1", "4", "4", "p">>
                 ELSE IF h <= 240 THEN <<"2", "4", "0", "p">>
                 ELSE IF h <= 360 THEN <<"3", "6", "0", "p">>
                 ELSE IF h <= 480 THEN <<"4", "8", "0", "p">>
                 ELSE IF h <= 720 THEN <<"7", "2", "0", "p">>
                 ELSE IF h <= 1080 THEN <<"1", "0", "8", "0", "p">>
                 ELSE IF h <= 1440 THEN <<"1", "4", "4", "0", "p">>
                 ELSE IF h <= 2160 THEN <<"4", "K">>
                 ELSE str(h) \o <<"p">>

\* 'video' in line.lower() and 'mp4' in line.lower()
VideoMp4(parts) ==
    /\ \E i \in DOMAIN parts : In(<<"v", "i", "d", "e", "o">>, lower(parts[i]))
    /\ \E i \in DOMAIN parts : In(<<"m", "p", "4">>, lower(parts[i]))

\* for part in parts: the first part that reads as a resolution sets
\* `resolution` and ends the loop; every part before it appends an entry
\* when the line mentions video and mp4.  st.raised: an exception left the
\* loop (more than one 'x' to unpack, or format_id not yet assigned).
RECURSIVE ScanParts(_, _, _)
ScanParts(parts, j, st) ==
    IF j > Len(parts) \/ st.raised THEN st
    ELSE LET part == parts[j] IN
         IF In(<<"x">>, part) /\ isdigit(<<part[1]>>)
         THEN IF Count(part, "x") # 1
              THEN [st EXCEPT !.raised = TRUE]
              ELSE [st EXCEPT !.resolution = Resolution(part)]
         ELSE IF VideoMp4(parts)
              THEN IF st.format_id = Unbound
                   THEN [st EXCEPT !.raised = TRUE]
                   ELSE ScanParts(parts, j + 1,
                            [st EXCEPT !.formats =
                                Append(@, Entry(st.format_id, st.resolution))])
              ELSE ScanParts(parts, j + 1, st)

\* for line in lines
RECURSIVE ParseLines(_, _, _)
ParseLines(lines, i, st) ==
    IF i > Len(lines) \/ st.raised THEN st
    ELSE LET parts == lines[i] IN
         IF Len(parts) = 0 \/ parts[1][1] = "["
         THEN ParseLines(lines, i + 1, st)
         ELSE IF Len(parts) >= 3 /\ parts[1] = <<"f", "o", "r", "m", "a", "t">>
         THEN ParseLines(lines, i + 1, [st EXCEPT !.format_id = parts[1]])
         ELSE ParseLines(lines, i + 1,
                  ScanParts(parts, 1,
                      [st EXCEPT !.format_id =
                                    IF Len(parts) >= 3 THEN parts[1] ELSE @,
                                 !.resolution = Unknown]))

\* get_video_formats without formats.insert(0, ...): the parsed entries are
\* returned as they are.
ParsedEntriesOnly(run) ==
    IF run.how = "raises" THEN DefaultCatalog
    ELSE IF run.how = "rc_fail" THEN AutoOnly
    ELSE LET st == ParseLines(run.lines, 1,
                       [formats |-> <<>>, format_id |-> Unbound,
                        resolution |-> Unknown, raised |-> FALSE])
         IN  IF st.raised \/ st.formats = <<>>
             THEN DefaultCatalog
             ELSE st.formats

\* get_video_formats with the one-entry catalog where no entry was found.
BestOnlyWhenNoneFound(run) ==
    IF run.how = "raises" THEN DefaultCatalog
    ELSE IF run.how = "rc_fail" THEN AutoOnly
    ELSE LET st == ParseLines(run.lines, 1,
                       [formats |-> <<>>, format_id |-> Unbound,
                        resolution |-> Unknown, raised |-> FALSE])
         IN  IF st.raised THEN DefaultCatalog
             ELSE IF st.formats = <<>> THEN AutoOnly
             ELSE <<Entry(BEST, Auto)>> \o st.formats

\* The catalog entries are [format_id, label]; the "ext" key of a parsed
\* entry is read nowhere.
get_video_formats(run) ==
    IF run.how = "raises" THEN DefaultCatalog
    ELSE IF run.how = "rc_fail" THEN AutoOnly
    ELSE LET st == ParseLines(run.lines, 1,
                       [formats |-> <<>>, format_id |-> Unbound,
                        resolution |-> Unknown, raised |-> FALSE])
         IN  IF st.raised \/ st.formats = <<>>
             THEN DefaultCatalog
             ELSE <<Entry(BEST, Auto)>> \o st.formats

\* Further extractor lines: "140 m4a audio only", "mp4 video" (fewer than
\* three parts), "18 mp4 1x2x3 video" (a part with two 'x'), "1920x1080 mp4
\* video" (the resolution first), "22 MP4 Video 1280x720" (capitals, the
\* resolution last).
AudioLine ==
    <<<<"1", "4", "0">>, <<"m", "4", "a">>, <<"a", "u", "d", "i", "o">>,
      <<"o", "n", "l", "y">>>>
ShortLine == <<<<"m", "p", "4">>, <<"v", "i", "d", "e", "o">>>>
TwoXLine ==
    <<<<"1", "8">>, <<"m", "p", "4">>, <<"1", "x", "2", "x", "3">>,
      <<"v", "i", "d", "e", "o">>>>
ResolutionFirstLine ==
    <<<<"1", "9", "2", "0", "x", "1", "0", "8", "0">>, <<"m", "p", "4">>,
      <<"v", "i", "d", "e", "o">>>>
CapitalsLine ==
    <<<<"2", "2">>, <<"M", "P", "4">>, <<"V", "i", "d", "e", "o">>,
      <<"1", "2", "8", "0", "x", "7", "2", "0">>>>

LineKinds ==
    {InfoLine, HeaderLine, Line137, AudioLine, ShortLine, TwoXLine,
     ResolutionFirstLine, CapitalsLine}

\* The runs handed to get_video_formats on its own: the extractor exits
\* non-zero, cannot be launched, or prints up to MaxLines lines.
RunInputs ==
    {[how |-> "rc_fail", lines |-> <<>>], [how |-> "raises", lines |-> <<>>]}
    \cup {[how |-> "ok", lines |-> ls] :
             ls \in UNION {[1..n -> LineKinds] : n \in 0..MaxLines}}

NoQuery ==
    [at |-> "input", run |-> [how |-> "rc_fail", lines |-> <<>>],
     run2 |-> [how |-> "rc_fail", lines |-> <<>>], format_code |-> BEST,
     catalog |-> <<>>, token |-> <<>>, raw |-> <<>>, url |-> <<>>, again |-> <<>>]

\* formats = get_video_formats(url)
ListFormats ==
    /\ query.at = "input"
    /\ query' = [query EXCEPT !.at = "listed",
                              !.catalog = get_video_formats(query.run)]
    /\ UNCHANGED <<video_cache, fs, now, retryVars, serverVars, ticks, deletes>>

\* fmt["label"].replace("p", "").replace("60", "")
LabelDigits(label) == replace(replace(label, <<"p">>), <<"6", "0">>)

\* The key of a plain nearest-height match: abs(x[0] - target_height) only.
NearestOnly(h, target) ==
    <<0, IF h > target THEN h - target ELSE target - h>>

\* key=lambda x: (x[0] > target_height, abs(x[0] - target_height))
SortKey(h, target) ==
    <<IF h > target THEN 1 ELSE 0, IF h > target THEN h - target ELSE target - h>>
KeyLess(a, b) == a[1] < b[1] \/ (a[1] = b[1] /\ a[2] < b[2])

\* get_best_available_format with `except ValueError: height = 0` in place
\* of `continue`: an entry whose label cannot be read counts as height 0.
UnreadableAsZero(catalog, target_height) ==
    LET valid_formats ==
            SelectSeq(catalog,
                LAMBDA e : Len(e.label) > 0 /\ e.format_id # BEST)
        height(e) == IF IntParses(LabelDigits(e.label))
                     THEN int(LabelDigits(e.label)) ELSE 0
        key(i) == SortKey(height(valid_formats[i]), target_height)
    IN  IF valid_formats = <<>> THEN BEST
        ELSE valid_formats[
                 CHOOSE i \in DOMAIN valid_formats :
                     \A j \in DOMAIN valid_formats :
                         /\ ~KeyLess(key(j), key(i))
                         /\ (key(j) = key(i) => i <= j)].format_id

\* `catalog` is what the function's own extractor query returned.
get_best_available_format(catalog, target_height) ==
    LET valid_formats ==
            SelectSeq(catalog,
                LAMBDA e : /\ Len(e.label) > 0
                           /\ e.format_id # BEST
                           /\ IntParses(LabelDigits(e.label)))
        key(i) == SortKey(int(LabelDigits(valid_formats[i].label)), target_height)
    IN  IF valid_formats = <<>> THEN BEST
        ELSE valid_formats[
                 CHOOSE i \in DOMAIN valid_formats :
                     \A j \in DOMAIN valid_formats :
                         /\ ~KeyLess(key(j), key(i))
                         /\ (key(j) = key(i) => i <= j)].format_id

(***************************************************************************)
(* normalize_youtube_url.  main.py imports it from utils.downloader, which *)
(* does not define it; it is modelled from the specification: the four     *)
(* recognised forms of an 11-character id are rewritten to watch?v=<id>,   *)
(* anything else is passed through.  A URL is the sequence of its parts:   *)
(* the text up to the identifier, the identifier, and what follows it.     *)
(***************************************************************************)
WatchPrefix == "https://www.youtube.com/watch?v="
RecognisedPrefixes ==
    {"https://youtu.be/", "https://www.youtube.com/shorts/",
     "https://www.youtube.com/embed/", WatchPrefix}
IsVideoId(token) == Len(token) = 11
Recognised(u) == Len(u) >= 2 /\ u[1] \in RecognisedPrefixes /\ IsVideoId(u[2])

\* A normaliser that rewrites the prefix and keeps what follows the id.
NormalizeKeepingQuery(u) ==
    IF Recognised(u) THEN <<WatchPrefix>> \o Tail(u) ELSE u

normalize_youtube_url(u) ==
    IF Recognised(u) THEN <<WatchPrefix, u[2]>> ELSE u

(***************************************************************************)
(* The HTTP service of main.py.  Every handler is a coroutine of the one   *)
(* event loop: it runs from one await to the next with the loop to itself. *)
(* download_youtube_video has no await: it calls download_with_retry as a  *)
(* plain function, so it holds the loop from its first line to its         *)
(* response, over the retrieval steps and the time.sleep of the retries.   *)
(***************************************************************************)
IPs == {"203.0.113.7"}
Kinds == {"download", "formats", "health"}
ShortURL1 == <<"https://youtu.be/", "ABCDEFGHIJK">>
RawURLs == {ShortURL1}

\* did: the calls the handler has made for the request, in order; cached:
\* the path it answered with came from video_cache.
Request(k, ip, u, f) ==
    [kind |-> k, ip |-> ip, url |-> u, fmt |-> f,
     stage |-> "queued", status |-> 0, missing |-> FALSE,
     did |-> <<>>, cached |-> FALSE]

\* The response of request r leaves with status st.
Answer(r, st) == [reqs EXCEPT ![r].stage = "done", ![r].status = st]

\* Handler of request r has made the calls cs.
Did(rs, r, cs) == [rs EXCEPT ![r].did = @ \o cs]

\* A client sends a request; it waits until the loop runs its handler.
Arrive ==
    /\ Len(reqs) < MaxRequests
    /\ \E k \in Kinds, ip \in IPs :
         /\ k = "download" =>
                Cardinality({r \in DOMAIN reqs : reqs[r].kind = "download"}) < MaxDownloads
         /\ \E u \in (IF k = "health" THEN {<<>>} ELSE RawURLs),
            f \in (IF k = "download" THEN Formats ELSE {<<>>}) :
                reqs' = Append(reqs, Request(k, ip, u, f))
    /\ UNCHANGED <<video_cache, fs, now, retryVars, loop, rate_limit_store,
                   suspicious_ips, next_sweep, envVars>>

\* check_rate_limit counting the request it rejects as well.
CountRejected(store, susp, client_ip, current_time) ==
    LET kept == {ip \in DOMAIN store :
                    ~(current_time - store[ip].timestamp > RATE_WINDOW)}
        live == [ip \in kept |-> store[ip]]
    IN  IF client_ip \in kept
        THEN [ok |-> live[client_ip].count < RATE_LIMIT,
              store |-> [live EXCEPT ![client_ip].count = @ + 1],
              susp |-> susp]
        ELSE [ok |-> TRUE,
              store |-> [ip \in kept \cup {client_ip} |->
                            IF ip = client_ip
                            THEN [count |-> 1, timestamp |-> current_time]
                            ELSE live[ip]],
              susp |-> susp]

\* check_rate_limit admitting a request when the count has reached the limit.
AdmitAtLimit(store, susp, client_ip, current_time) ==
    LET kept == {ip \in DOMAIN store :
                    ~(current_time - store[ip].timestamp > RATE_WINDOW)}
        live == [ip \in kept |-> store[ip]]
    IN  IF client_ip \in kept
        THEN IF live[client_ip].count > RATE_LIMIT
             THEN [value |-> "False", ok |-> FALSE, store |-> live, susp |-> susp]
             ELSE [value |-> "True", ok |-> TRUE,
                   store |-> [live EXCEPT ![client_ip].count = @ + 1],
                   susp |-> susp]
        ELSE [value |-> "True", ok |-> TRUE,
              store |-> [ip \in kept \cup {client_ip} |->
                            IF ip = client_ip
                            THEN [count |-> 1, timestamp |-> current_time]
                            ELSE live[ip]],
              susp |-> susp]

\* check_rate_limit with a rejection that starts the window again.
RejectExtendsWindow(store, susp, client_ip, current_time) ==
    LET kept == {ip \in DOMAIN store :
                    ~(current_time - store[ip].timestamp > RATE_WINDOW)}
        live == [ip \in kept |-> store[ip]]
    IN  IF client_ip \in kept
        THEN IF live[client_ip].count >= RATE_LIMIT
             THEN [value |-> "False", ok |-> FALSE,
                   store |-> [live EXCEPT ![client_ip].timestamp = current_time],
                   susp |-> [ip \in DOMAIN susp \cup {client_ip} |->
                               IF ip = client_ip
                               THEN (IF ip \in DOMAIN susp THEN susp[ip] ELSE 0) + 1
                               ELSE susp[ip]]]
             ELSE [value |-> "True", ok |-> TRUE,
                   store |-> [live EXCEPT ![client_ip].count = @ + 1],
                   susp |-> susp]
        ELSE [value |-> "True", ok |-> TRUE,
              store |-> [ip \in kept \cup {client_ip} |->
                            IF ip = client_ip
                            THEN [count |-> 1, timestamp |-> current_time]
                            ELSE live[ip]],
              susp |-> susp]

\* [value, ok, store, susp]: the value returned, its truth as the handlers
\* test it (if not check_rate_limit(client_ip)), and the two dictionaries
\* after the call.  The last branch of the inner test is the path on which
\* the function falls off its end and returns None.
check_rate_limit(store, susp, client_ip, current_time) ==
    LET kept == {ip \in DOMAIN store :
                    ~(current_time - store[ip].timestamp > RATE_WINDOW)}
        live == [ip \in kept |-> store[ip]]
    IN  IF client_ip \in kept
        THEN IF current_time - live[client_ip].timestamp <= RATE_WINDOW
             THEN IF live[client_ip].count >= RATE_LIMIT
                  THEN [value |-> "False", ok |-> FALSE, store |-> live,
                        susp |-> [ip \in DOMAIN susp \cup {client_ip} |->
                                    IF ip = client_ip
                                    THEN (IF ip \in DOMAIN susp THEN susp[ip] ELSE 0) + 1
                                    ELSE susp[ip]]]
                  ELSE [value |-> "True", ok |-> TRUE,
                        store |-> [live EXCEPT ![client_ip].count = @ + 1],
                        susp |-> susp]
             ELSE [value |-> "None", ok |-> FALSE, store |-> live, susp |-> susp]
        ELSE [value |-> "True", ok |-> TRUE,
              store |-> [ip \in kept \cup {client_ip} |->
                            IF ip = client_ip
                            THEN [count |-> 1, timestamp |-> current_time]
                            ELSE live[ip]],
              susp |-> susp]

\* setup_periodic_cleanup creates the sweep task at startup, before the
\* server accepts a connection: its first iteration runs before any handler.
Started == next_sweep > 0

\* if format_code not in available_ids: ...
NeedsNearest(fc, available_formats) ==
    /\ ~\E i \in DOMAIN available_formats : available_formats[i].format_id = fc
    /\ isdigit(fc)

\* The value that stands for int(format_code) raising ValueError.
ValueError == <<"raise ValueError">>

ResolveFormat(fc, available_formats, second_query) ==
    IF \E i \in DOMAIN available_formats : available_formats[i].format_id = fc
    THEN fc
    ELSE IF isdigit(fc)
         THEN IF IntParses(fc)
              THEN get_best_available_format(second_query, int(fc))
              ELSE ValueError
         ELSE BEST

\* except Exception as e: raise HTTPException(status_code=500, ...): every
\* exception raised inside the try block, an HTTPException included, leaves
\* the handler as status 500.
ExceptException(status) == 500

\* The calls /download makes up to download_with_retry, in order.
HandlerCalls(fc, available_formats) ==
    <<"check_rate_limit", "normalize_youtube_url", "get_video_formats">>
    \o (IF NeedsNearest(fc, available_formats)
        THEN <<"get_best_available_format">> ELSE <<>>)
    \o <<"download_with_retry">>

\* /download up to the call of download_with_retry(url, format_code,
\* max_retries=3): rate limit, normalisation, catalog, format resolution.
download_youtube_video(r) ==
    /\ Started
    /\ loop = 0
    /\ reqs[r].kind = "download"
    /\ reqs[r].stage = "queued"
    /\ LET rl == check_rate_limit(rate_limit_store, suspicious_ips, reqs[r].ip, now) IN
       /\ rate_limit_store' = rl.store
       /\ suspicious_ips' = rl.susp
       /\ IF ~rl.ok
          THEN /\ reqs' = Did(Answer(r, 429), r, <<"check_rate_limit">>)
               /\ UNCHANGED <<loop, retryVars>>
          ELSE \E run1 \in ExtractorRuns, run2 \in ExtractorRuns :
               LET token == ResolveFormat(reqs[r].fmt, get_video_formats(run1),
                                          get_video_formats(run2))
                   calls == HandlerCalls(reqs[r].fmt, get_video_formats(run1))
               IN  IF token = ValueError
                   THEN \* int(format_code) raised inside the try block
                        /\ reqs' = Did(Answer(r, ExceptException(500)), r,
                                       SubSeq(calls, 1, 3))
                        /\ UNCHANGED <<loop, retryVars>>
                   ELSE /\ format_code' = token
                        /\ reqs' = Did([reqs EXCEPT ![r].stage = "running"], r, calls)
                        /\ url' = normalize_youtube_url(reqs[r].url)
                        /\ max_retries' = HANDLER_MAX_RETRIES
                        /\ retry_count' = 0
                        /\ last_error' = NoError
                        /\ exc' = NoError
                        /\ ts' = 0
                        /\ dfmt' = BEST
                        /\ result' = NoPath
                        /\ raised' = NoError
                        /\ trace' = <<>>
                        /\ log' = <<>>
                        /\ pc' = "loop"
                        /\ loop' = r
    /\ UNCHANGED <<video_cache, fs, now, attempts, next_sweep, envVars>>

\* /download after download_with_retry returned or raised.
download_youtube_video_respond ==
    /\ loop # 0
    /\ pc \in {"returned", "raised"}
    /\ reqs' =
        IF pc = "returned"
        THEN IF Exists(fs, result)
             THEN [Answer(loop, 200) EXCEPT
                      ![loop].cached = \E i \in DOMAIN trace : trace[i].op = "cache_hit"]
             ELSE [Answer(loop, ExceptException(404)) EXCEPT ![loop].missing = TRUE]
        ELSE Answer(loop, ExceptException(500))
    /\ loop' = 0
    \* the handler's frame is gone
    /\ pc' = "idle"
    /\ url' = URL1
    /\ format_code' = BEST
    /\ max_retries' = 0
    /\ retry_count' = 0
    /\ last_error' = NoError
    /\ exc' = NoError
    /\ ts' = 0
    /\ dfmt' = BEST
    /\ result' = NoPath
    /\ raised' = NoError
    /\ trace' = <<>>
    /\ log' = <<>>
    /\ UNCHANGED <<video_cache, fs, now, attempts, rate_limit_store,
                   suspicious_ips, next_sweep, envVars>>

\* /formats
list_formats(r) ==
    /\ Started
    /\ loop = 0
    /\ reqs[r].kind = "formats"
    /\ reqs[r].stage = "queued"
    /\ LET rl == check_rate_limit(rate_limit_store, suspicious_ips, reqs[r].ip, now) IN
       /\ rate_limit_store' = rl.store
       /\ suspicious_ips' = rl.susp
       /\ reqs' = IF rl.ok
                  THEN Did(Answer(r, 200), r, <<"check_rate_limit", "get_video_formats">>)
                  ELSE Did(Answer(r, 429), r, <<"check_rate_limit">>)
    /\ UNCHANGED <<video_cache, fs, now, retryVars, loop, next_sweep, envVars>>

\* /health
health_check(r) ==
    /\ Started
    /\ loop = 0
    /\ reqs[r].kind = "health"
    /\ reqs[r].stage = "queued"
    /\ reqs' = Answer(r, 200)
    /\ UNCHANGED <<video_cache, fs, now, retryVars, loop, rate_limit_store,
                   suspicious_ips, next_sweep, envVars>>

\* A sweep that removes the old files named *.mp4 only.
IsMp4(p) == p[1] # "audio"
cleanup_mp4_only ==
    /\ loop = 0
    /\ now >= next_sweep
    /\ fs' = [p \in {q \in DOMAIN fs :
                         ~(IsMp4(q) /\ now - fs[q].mtime > SWEEP_AGE)} |-> fs[p]]
    /\ next_sweep' = now + SWEEP_INTERVAL
    /\ UNCHANGED <<video_cache, now, retryVars, loop, reqs, rate_limit_store,
                   suspicious_ips, envVars>>

\* A sweep that removes a file from the age of 2 hours on.
cleanup_from_two_hours ==
    /\ loop = 0
    /\ now >= next_sweep
    /\ fs' = [p \in {q \in DOMAIN fs : ~(now - fs[q].mtime >= SWEEP_AGE)} |-> fs[p]]
    /\ next_sweep' = now + SWEEP_INTERVAL
    /\ UNCHANGED <<video_cache, now, retryVars, loop, reqs, rate_limit_store,
                   suspicious_ips, envVars>>

\* One iteration of cleanup_old_files, when its asyncio.sleep(1800) is over.
cleanup_old_files ==
    /\ loop = 0
    /\ now >= next_sweep
    /\ fs' = [p \in {q \in DOMAIN fs : ~(now - fs[q].mtime > SWEEP_AGE)} |-> fs[p]]
    /\ next_sweep' = now + SWEEP_INTERVAL
    /\ UNCHANGED <<video_cache, now, retryVars, loop, reqs, rate_limit_store,
                   suspicious_ips, envVars>>

\* One iteration of cleanup_old_files in which os.listdir, os.path.getmtime
\* or os.remove raises: the files removed before the exception are gone, the
\* others stay, except Exception prints the error and the task sleeps.
cleanup_old_files_raises ==
    /\ loop = 0
    /\ now >= next_sweep
    /\ \E removed \in SUBSET {q \in DOMAIN fs : now - fs[q].mtime > SWEEP_AGE} :
           fs' = RemoveIfExists(fs, removed)
    /\ next_sweep' = now + SWEEP_INTERVAL
    /\ UNCHANGED <<video_cache, now, retryVars, loop, reqs, rate_limit_store,
                   suspicious_ips, envVars>>

Serve(r) == download_youtube_video(r) \/ list_formats(r) \/ health_check(r)

(***************************************************************************)
(* The sweep over the life of the process.  Time is measured from the      *)
(* present: when d seconds pass, every modification time and the end of    *)
(* the sweep's sleep move d seconds into the past, and `now` stays.  The   *)
(* sweep reads differences only (now - mtime > 7200, a sleep of 1800), so  *)
(* ages beyond 7200 and sleeps that are over are not told apart.           *)
(***************************************************************************)
SweepPaths == {TempVideo(URL1, 0), TempAudio(URL1, 0), TitlePath(URL1, 0)}
SweepSteps == {900, 1800}

Later(a, b) == IF a >= b THEN a ELSE b

\* A retrieval writes a file into the download directory and leaves it:
\* the temporary video and audio files of a separate-tracks attempt that did
\* not reach its cleanup, or an output file.  Temporary names carry a
\* timestamp and are written once; <title>.mp4 can be written again.
Leave ==
    /\ \E p \in SweepPaths :
         /\ Exists(fs, p) => p = TitlePath(URL1, 0)
         /\ fs' = WriteFile(fs, p, 1, now)
    /\ UNCHANGED <<video_cache, now, retryVars, serverVars, envVars>>

\* d seconds pass.
Elapse ==
    /\ \E d \in SweepSteps :
         /\ fs' = [p \in DOMAIN fs |->
                      [fs[p] EXCEPT !.mtime = Later(@ - d, now - SWEEP_AGE - 1)]]
         /\ next_sweep' = Later(next_sweep - d, now)
    /\ UNCHANGED <<video_cache, now, retryVars, loop, reqs, rate_limit_store,
                   suspicious_ips, envVars>>

NextSweep ==
    \/ Leave
    \/ Elapse
    \/ cleanup_old_files
    \/ cleanup_old_files_raises

(***************************************************************************)
(* The rate limiter under load: one request after the other from two       *)
(* clients, seconds apart or a window apart.  A /download request that is  *)
(* admitted goes on into download_with_retry, where this specification     *)
(* leaves it.                                                              *)
(***************************************************************************)
RateClients == IPs \cup {"198.51.100.9"}
RateSteps == {1, 60}

\* The previous response has left; the next request arrives.
NextRequest ==
    /\ \A r \in DOMAIN reqs : reqs[r].stage = "done"
    /\ \A ip \in DOMAIN suspicious_ips : suspicious_ips[ip] < MaxSuspicion
    /\ \E k \in {"download", "formats"}, ip \in RateClients :
         reqs' = <<Request(k, ip, ShortURL1, IF k = "download" THEN BEST ELSE <<>>)>>
    /\ UNCHANGED <<video_cache, fs, now, retryVars, loop, rate_limit_store,
                   suspicious_ips, next_sweep, envVars>>

\* The same for /formats alone, over windows that end: a client that has
\* been rejected MaxSuspicion times waits for the end of its window before
\* it asks again.
ArriveFormats ==
    /\ \A r \in DOMAIN reqs : reqs[r].stage = "done"
    /\ \E ip \in RateClients :
         /\ (ip \in DOMAIN suspicious_ips /\ suspicious_ips[ip] >= MaxSuspicion)
                => ~(/\ ip \in DOMAIN rate_limit_store
                     /\ now - rate_limit_store[ip].timestamp <= RATE_WINDOW)
         /\ reqs' = <<Request("formats", ip, ShortURL1, <<>>)>>
    /\ UNCHANGED <<video_cache, fs, now, retryVars, loop, rate_limit_store,
                   suspicious_ips, next_sweep, envVars>>

RateTick ==
    /\ ticks < MaxTicks
    /\ \E d \in RateSteps : now' = now + d
    /\ ticks' = ticks + 1
    /\ UNCHANGED <<video_cache, fs, retryVars, serverVars, deletes, query>>

(***************************************************************************)
(* /download against a cache that earlier retrievals have filled: the      *)
(* handler up to the cache lookup of download_video_improved, and its      *)
(* response when the lookup hits.  A lookup that misses goes on into the   *)
(* strategies, where this specification leaves it.                         *)
(***************************************************************************)
NextHit ==
    \/ loop = 0 /\ CacheStore /\ UNCHANGED <<cacheFrame, envVars>>
    \/ Arrive
    \/ \E r \in DOMAIN reqs : download_youtube_video(r)
    \/ download_youtube_video_respond
    \/ \E r \in DOMAIN reqs : list_formats(r)
    \/ \E r \in DOMAIN reqs : health_check(r)
    \/ cleanup_old_files
    \/ LoopTest /\ UNCHANGED <<serverVars, envVars>>
    \/ ImprovedStart /\ UNCHANGED <<serverVars, envVars>>

(***************************************************************************)
(* The sweep and the cache.  Artifacts are stored and cached, time passes  *)
(* by a second or by two hours, the sweep iterates, and download_with_retry *)
(* is called up to the cache lookup of download_video_improved.  A lookup  *)
(* that misses goes on into the strategies, where this specification       *)
(* leaves it.                                                              *)
(***************************************************************************)
SweepTick ==
    /\ ticks < MaxTicks
    /\ \E d \in {1, SWEEP_AGE} : now' = now + d
    /\ ticks' = ticks + 1
    /\ UNCHANGED <<video_cache, fs, retryVars, serverVars, deletes, query>>

NextEvict ==
    \/ pc \in {"idle", "returned"} /\ CacheStore /\ UNCHANGED <<cacheFrame, envVars>>
    \/ SweepTick
    \/ cleanup_old_files
    \/ cleanup_old_files_raises
    \/ Call /\ max_retries' = 1 /\ UNCHANGED <<serverVars, envVars>>
    \/ LoopTest /\ UNCHANGED <<serverVars, envVars>>
    \/ ImprovedStart /\ UNCHANGED <<serverVars, envVars>>

(***************************************************************************)
(* Two /download requests for one (url, format_code): the second may       *)
(* arrive before, while or after the first is handled.                     *)
(***************************************************************************)
ArrivePair ==
    /\ Len(reqs) < MaxRequests
    /\ reqs' = Append(reqs, Request("download", "203.0.113.7", ShortURL1, BEST))
    /\ UNCHANGED <<video_cache, fs, now, retryVars, loop, rate_limit_store,
                   suspicious_ips, next_sweep, envVars>>

NextTwo ==
    \/ ArrivePair
    \/ \E r \in DOMAIN reqs : download_youtube_video(r)
    \/ download_youtube_video_respond
    \/ cleanup_old_files
    \/ LoopTest /\ UNCHANGED <<serverVars, envVars>>
    \/ AttemptFailed /\ UNCHANGED <<serverVars, envVars>>
    \/ Sleep /\ UNCHANGED <<serverVars, envVars>>
    \/ ImprovedStart /\ UNCHANGED <<serverVars, envVars>>
    \/ CombinedStep /\ UNCHANGED <<serverVars, envVars>>
    \/ SingleStep /\ UNCHANGED <<serverVars, envVars>>
    \/ SeparateStep /\ UNCHANGED <<serverVars, envVars>>
    \/ RemuxStep /\ UNCHANGED <<serverVars, envVars>>
    \/ SimpleStep /\ UNCHANGED <<serverVars, envVars>>
    \/ DirectStep /\ UNCHANGED <<serverVars, envVars>>

(***************************************************************************)
(* download_with_retry called for one attempt, again and again, with time  *)
(* passing between one call's return and the next call.                    *)
(***************************************************************************)
NextStale ==
    \/ Call /\ max_retries' = 1 /\ UNCHANGED <<serverVars, envVars>>
    \/ pc = "returned" /\ SweepTick
    \/ LoopTest /\ UNCHANGED <<serverVars, envVars>>
    \/ ImprovedStart /\ UNCHANGED <<serverVars, envVars>>
    \/ CombinedStep /\ UNCHANGED <<serverVars, envVars>>
    \/ SingleStep /\ UNCHANGED <<serverVars, envVars>>
    \/ SeparateStep /\ UNCHANGED <<serverVars, envVars>>
    \/ RemuxStep /\ UNCHANGED <<serverVars, envVars>>
    \/ SimpleStep /\ UNCHANGED <<serverVars, envVars>>
    \/ DirectStep /\ UNCHANGED <<serverVars, envVars>>

NextWindow ==
    \/ ArriveFormats
    \/ \E r \in DOMAIN reqs : list_formats(r)
    \/ cleanup_old_files
    \/ RateTick

NextRate ==
    \/ NextRequest
    \/ \E r \in DOMAIN reqs : download_youtube_video(r)
    \/ \E r \in DOMAIN reqs : list_formats(r)
    \/ cleanup_old_files
    \/ RateTick

NextServer ==
    \/ Arrive
    \/ \E r \in DOMAIN reqs : download_youtube_video(r)
    \/ download_youtube_video_respond
    \/ \E r \in DOMAIN reqs : list_formats(r)
    \/ \E r \in DOMAIN reqs : health_check(r)
    \/ cleanup_old_files
    \/ LoopTest /\ UNCHANGED <<serverVars, envVars>>
    \/ AttemptFailed /\ UNCHANGED <<serverVars, envVars>>
    \/ Sleep /\ UNCHANGED <<serverVars, envVars>>
    \/ ImprovedStart /\ UNCHANGED <<serverVars, envVars>>
    \/ CombinedStep /\ UNCHANGED <<serverVars, envVars>>
    \/ SingleStep /\ UNCHANGED <<serverVars, envVars>>
    \/ SeparateStep /\ UNCHANGED <<serverVars, envVars>>
    \/ RemuxStep /\ UNCHANGED <<serverVars, envVars>>
    \/ SimpleStep /\ UNCHANGED <<serverVars, envVars>>
    \/ DirectStep /\ UNCHANGED <<serverVars, envVars>>
    \/ ExternalDelete /\ UNCHANGED <<video_cache, now, retryVars, serverVars, ticks, query>>

InitProgram ==
    /\ video_cache = <<>>
    /\ fs = <<>>
    /\ now = 0
    /\ pc = "idle"
    /\ url = URL1
    /\ format_code = BEST
    /\ max_retries = 0
    /\ retry_count = 0
    /\ last_error = NoError
    /\ exc = NoError
    /\ ts = 0
    /\ dfmt = BEST
    /\ result = NoPath
    /\ raised = NoError
    /\ trace = <<>>
    /\ log = <<>>
    /\ attempts = 0
    /\ loop = 0
    /\ reqs = <<>>
    /\ rate_limit_store = <<>>
    /\ suspicious_ips = <<>>
    /\ next_sweep = 0
    /\ ticks = 0
    /\ deletes = 0

Init ==
    /\ InitProgram
    /\ query = NoQuery

\* get_video_formats on its own: every extractor run of RunInputs.
InitFormats ==
    /\ InitProgram
    /\ \E run \in RunInputs : query = [NoQuery EXCEPT !.run = run]

NextFormats ==
    \/ ListFormats

\* The format_code strings a caller sends: "best", a catalog format_id,
\* bare integers around the heights of the default catalog, a word, the
\* empty string, and a digit character that is not a decimal digit.
RequestCodes ==
    { BEST, F720, F136_140, <<>>, <<"h", "d">>, <<"SUPERSCRIPT TWO">>,
      <<"0">>, <<"2">>, <<"3">>, <<"1", "0", "0">>, <<"3", "5", "9">>,
      <<"3", "6", "0">>, <<"4", "0", "0">>, <<"4", "8", "0">>,
      <<"7", "0", "0">>, <<"1", "0", "8", "0">>, <<"2", "0", "0", "0">> }

\* Format resolution on its own: every request code, and every outcome of
\* the two extractor queries it can make.
InitSelect ==
    /\ InitProgram
    /\ \E run \in ExtractorRuns, run2 \in ExtractorRuns, fc \in RequestCodes :
           query = [NoQuery EXCEPT !.run = run, !.run2 = run2, !.format_code = fc]

\* get_best_available_format(url, int(format_code)), the catalog being
\* the one its own extractor query returns.
SelectBest ==
    /\ query.at = "input"
    /\ IntParses(query.format_code)
    /\ query' = [query EXCEPT
                    !.at = "selected",
                    !.catalog = get_video_formats(query.run2),
                    !.token = get_best_available_format(
                                  get_video_formats(query.run2),
                                  int(query.format_code))]
    /\ UNCHANGED <<video_cache, fs, now, retryVars, serverVars, ticks, deletes>>

\* The format resolution of /download: the catalog of the handler's query,
\* then the token handed to download_with_retry, or ValueError raised.
Resolve ==
    /\ query.at = "input"
    /\ query' = [query EXCEPT
                    !.at = "resolved",
                    !.catalog = get_video_formats(query.run),
                    !.token = ResolveFormat(query.format_code,
                                            get_video_formats(query.run),
                                            get_video_formats(query.run2))]
    /\ UNCHANGED <<video_cache, fs, now, retryVars, serverVars, ticks, deletes>>

NextSelect ==
    \/ SelectBest
    \/ Resolve

\* The url strings a caller sends: the four recognised forms of three
\* video ids, bare or followed by a query or a fragment, and strings that
\* are none of them (another host, an id of 10 or 12 characters, no id, the
\* empty string).
VideoIds == {"ABCDEFGHIJK", "dQw4w9WgXcQ", "a-b_c-d_e-f"}
Suffixes == {<<>>, <<"&t=10s">>, <<"?si=share">>}
RawInputs ==
    {<<p, v>> \o sfx : p \in RecognisedPrefixes, v \in VideoIds, sfx \in Suffixes}
    \cup {<<"https://vimeo.com/", "ABCDEFGHIJK">>,
          <<"https://youtu.be/", "ABCDEFGHIJ">>,
          <<WatchPrefix, "ABCDEFGHIJKL">>,
          <<"https://www.youtube.com/shorts/", "">>,
          <<"https://www.youtube.com/">>,
          <<"ABCDEFGHIJK">>,
          <<>>}

InitNormalize ==
    /\ InitProgram
    /\ \E u \in RawInputs : query = [NoQuery EXCEPT !.raw = u]

\* url = normalize_youtube_url(url), on the inbound url of a request.
Normalize ==
    /\ query.at = "input"
    /\ query' = [query EXCEPT !.at = "normalised",
                              !.url = normalize_youtube_url(query.raw)]
    /\ UNCHANGED <<video_cache, fs, now, retryVars, serverVars, ticks, deletes>>

\* The same, on the inbound url of a request that sends the normalised url
\* of an earlier one.
NormalizeAgain ==
    /\ query.at = "normalised"
    /\ query' = [query EXCEPT !.at = "renormalised",
                              !.again = normalize_youtube_url(query.url)]
    /\ UNCHANGED <<video_cache, fs, now, retryVars, serverVars, ticks, deletes>>

NextNormalize ==
    \/ Normalize
    \/ NormalizeAgain

\* download_with_retry called on its own, as a library function.
Next ==
    \/ Call /\ UNCHANGED <<serverVars, envVars>>
    \/ LoopTest /\ UNCHANGED <<serverVars, envVars>>
    \/ AttemptFailed /\ UNCHANGED <<serverVars, envVars>>
    \/ Sleep /\ UNCHANGED <<serverVars, envVars>>
    \/ ImprovedStart /\ UNCHANGED <<serverVars, envVars>>
    \/ CombinedStep /\ UNCHANGED <<serverVars, envVars>>
    \/ SingleStep /\ UNCHANGED <<serverVars, envVars>>
    \/ SeparateStep /\ UNCHANGED <<serverVars, envVars>>
    \/ RemuxStep /\ UNCHANGED <<serverVars, envVars>>
    \/ SimpleStep /\ UNCHANGED <<serverVars, envVars>>
    \/ DirectStep /\ UNCHANGED <<serverVars, envVars>>

Spec == Init /\ [][Next]_vars
SpecCache == Init /\ [][NextCache]_vars
SpecKeys == Init /\ [][NextKeys]_vars
SpecEvict == Init /\ [][NextEvict]_vars
SpecServer == Init /\ [][NextServer]_vars
SpecRate == Init /\ [][NextRate]_vars
SpecHit == Init /\ [][NextHit]_vars
SpecTwo == Init /\ [][NextTwo]_vars
SpecWindow == Init /\ [][NextWindow]_vars
SpecStale == Init /\ [][NextStale]_vars
SpecFormats == InitFormats /\ [][NextFormats]_vars
SpecSelect == InitSelect /\ [][NextSelect]_vars
SpecNormalize == InitNormalize /\ [][NextNormalize]_vars

\* The sweep task for the life of the process.  Time passes; the event loop
\* runs the task when its sleep is over; and an exception in the iteration
\* (a file that vanished between listdir and getmtime, a directory that
\* cannot be read) does not recur at every iteration for ever.
SpecSweep ==
    /\ Init
    /\ [][NextSweep]_vars
    /\ WF_vars(Elapse)
    /\ WF_vars(cleanup_old_files \/ cleanup_old_files_raises)
    /\ SF_vars(cleanup_old_files)

(***************************************************************************)
(* Properties of the artifact cache.                                       *)
(***************************************************************************)
\* C8: get_cached_video returns the stored path exactly when an entry for
\* the key exists, its file exists and the entry is younger than 24 hours
\* (a hit 23h59m after the insertion, a miss 24h01m after it), and None in
\* every other case.
C8_HitIffPresentAndFresh ==
    pc = "looked" =>
        LET k == cache_key(url, format_code) IN
        /\ IF /\ k \in DOMAIN video_cache
              /\ video_cache[k].path \in DOMAIN fs
              /\ now - video_cache[k].timestamp < 24 * 3600
           THEN result = video_cache[k].path
           ELSE result = NoPath
        /\ (k \in DOMAIN video_cache /\ now - video_cache[k].timestamp = 24 * 3600 + 60)
              => result = NoPath
        /\ (/\ k \in DOMAIN video_cache
            /\ video_cache[k].path \in DOMAIN fs
            /\ now - video_cache[k].timestamp = 24 * 3600 - 60)
              => result = video_cache[k].path

\* C25: get_cached_video never adds, removes or changes an entry of
\* video_cache, also when the entry it finds is expired or its file is gone;
\* an entry stays in the index until cache_video writes its key, which
\* replaces it with the path of the file just stored and the time of the
\* write.
C25_LookupLeavesIndexAlone ==
    [][ /\ pc' = "looked" => video_cache' = video_cache
        /\ \A k \in DOMAIN video_cache :
               /\ k \in DOMAIN video_cache'
               /\ video_cache'[k] # video_cache[k] =>
                      /\ pc' = "idle"
                      /\ video_cache'[k].timestamp = now
                      /\ Exists(fs', video_cache'[k].path) ]_vars

\* A lookup found the entry of its key expired and its file gone, answered
\* None, and the entry is still in the index.
C25_Witness ==
    /\ pc = "looked"
    /\ result = NoPath
    /\ cache_key(url, format_code) \in DOMAIN video_cache
    /\ ~Exists(fs, video_cache[cache_key(url, format_code)].path)
    /\ now - video_cache[cache_key(url, format_code)].timestamp >= CACHE_TTL

\* C26: the cache key separates url and format token: two different
\* (url, format_code) pairs never give the same key, so a lookup for one
\* pair never returns the path that was inserted for another pair.
C26_KeySeparatesPairs ==
    /\ \A k \in DOMAIN video_cache :
           \A a \in KeyPairs, b \in KeyPairs :
               (cache_key(a[1], a[2]) = k /\ cache_key(b[1], b[2]) = k) => a = b
    /\ (pc = "looked" /\ result # NoPath) => result = TitlePath(url, 0)

\* The lookup for (url + "_18", "best") returned the file stored for
\* (url, "18_best").
C26_OtherPairsPath ==
    /\ pc = "looked"
    /\ url = URL1 \o <<"_", "1", "8">>
    /\ format_code = BEST
    /\ result = TitlePath(URL1, 0)

\* A lookup 24h01m after the insertion, the file still there: a miss.
C8_Witness ==
    /\ pc = "looked"
    /\ cache_key(url, format_code) \in DOMAIN video_cache
    /\ video_cache[cache_key(url, format_code)].path \in DOMAIN fs
    /\ now - video_cache[cache_key(url, format_code)].timestamp = 24 * 3600 + 60
    /\ result = NoPath

\* Further cases of C8 that must occur: the hit at 23h59m, the miss on a
\* deleted file.
C8_HitAt2359 ==
    /\ pc = "looked"
    /\ cache_key(url, format_code) \in DOMAIN video_cache
    /\ now - video_cache[cache_key(url, format_code)].timestamp = 24 * 3600 - 60
    /\ result # NoPath

C8_MissOnDeletedFile ==
    /\ pc = "looked"
    /\ cache_key(url, format_code) \in DOMAIN video_cache
    /\ video_cache[cache_key(url, format_code)].path \notin DOMAIN fs
    /\ now - video_cache[cache_key(url, format_code)].timestamp < 60
    /\ result = NoPath

(***************************************************************************)
(* Properties of the HTTP service.                                         *)
(***************************************************************************)
\* The handler of request r runs its first part in this step, and
\* check_rate_limit rejects the request.
Rejects(r) ==
    /\ reqs[r].stage = "queued"
    /\ r \in DOMAIN reqs'
    /\ reqs'[r].stage # "queued"
    /\ reqs[r].kind \in {"download", "formats"}
    /\ rate_limit_store' # rate_limit_store \/ reqs'[r].did # <<>>
    /\ reqs[r].ip \in DOMAIN rate_limit_store
    /\ now - rate_limit_store[reqs[r].ip].timestamp <= RATE_WINDOW
    /\ rate_limit_store[reqs[r].ip].count >= RATE_LIMIT

\* C11: a /download or /formats request that check_rate_limit rejects is
\* answered with 429, makes no call after check_rate_limit (no
\* normalisation, no catalog query, no retrieval), writes nothing to
\* video_cache, and leaves its client's count and window timestamp as they
\* were.
C11_RejectedRequestTouchesNothing ==
    [][\A r \in DOMAIN reqs :
          Rejects(r) =>
              /\ reqs'[r].stage = "done"
              /\ reqs'[r].status = 429
              /\ reqs'[r].did = <<"check_rate_limit">>
              /\ UNCHANGED <<video_cache, fs, retryVars, loop>>
              /\ reqs[r].ip \in DOMAIN rate_limit_store'
              /\ rate_limit_store'[reqs[r].ip] = rate_limit_store[reqs[r].ip]]_vars

\* A /download request was rejected while its client's window stood at
\* RATE_LIMIT requests.
C11_Witness ==
    \E r \in DOMAIN reqs :
        /\ reqs[r].kind = "download"
        /\ reqs[r].stage = "done"
        /\ reqs[r].status = 429
        /\ reqs[r].ip \in DOMAIN rate_limit_store
        /\ rate_limit_store[reqs[r].ip].count = RATE_LIMIT

C11_FormatsRejected ==
    \E r \in DOMAIN reqs :
        reqs[r].kind = "formats" /\ reqs[r].stage = "done" /\ reqs[r].status = 429

\* The handler of the one request of the rate-limiter runs takes it up.
HandledStep ==
    /\ Len(reqs) = 1
    /\ Len(reqs') = 1
    /\ reqs[1].stage = "queued"
    /\ reqs'[1].stage # "queued"

\* The window of ip is open: its entry is not older than RATE_WINDOW.
InWindow(ip) ==
    /\ ip \in DOMAIN rate_limit_store
    /\ now - rate_limit_store[ip].timestamp <= RATE_WINDOW

\* C30: for each client IP check_rate_limit admits at most RATE_LIMIT
\* requests, /download and /formats counted together, within one window
\* that starts at the first admitted request: the first admitted request
\* stores count 1 and its time, every further one admitted in the window
\* finds a count below RATE_LIMIT and adds one to it, and a request is
\* rejected only at count RATE_LIMIT inside the window, leaving the entry
\* as it is.  The stored count is always between 1 and RATE_LIMIT, and the
\* call always returns True or False, never None.
C30_AtMostLimitPerWindow ==
    /\ [](\A ip \in DOMAIN rate_limit_store :
              rate_limit_store[ip].count \in 1..RATE_LIMIT)
    /\ [](\A ip \in RateClients :
              check_rate_limit(rate_limit_store, suspicious_ips, ip, now).value
                  \in {"True", "False"})
    /\ [][HandledStep =>
            LET ip == reqs[1].ip IN
            IF reqs'[1].status = 429
            THEN /\ InWindow(ip)
                 /\ rate_limit_store[ip].count = RATE_LIMIT
                 /\ rate_limit_store'[ip] = rate_limit_store[ip]
            ELSE /\ ip \in DOMAIN rate_limit_store'
                 /\ rate_limit_store'[ip] =
                       IF InWindow(ip)
                       THEN [count |-> rate_limit_store[ip].count + 1,
                             timestamp |-> rate_limit_store[ip].timestamp]
                       ELSE [count |-> 1, timestamp |-> now]
                 /\ InWindow(ip) => rate_limit_store[ip].count < RATE_LIMIT]_vars

\* The fifth request of a window is a /download admitted at the last
\* second of the window, after four /formats requests of the same client.
C30_Witness ==
    /\ Len(reqs) = 1
    /\ reqs[1].kind = "download"
    /\ reqs[1].stage = "running"
    /\ reqs[1].ip \in DOMAIN rate_limit_store
    /\ rate_limit_store[reqs[1].ip].count = RATE_LIMIT
    /\ now - rate_limit_store[reqs[1].ip].timestamp = RATE_WINDOW

\* C31: a rate-limited client is always re-admitted: a request of an IP
\* that is handled more than RATE_WINDOW seconds after the start of the
\* IP's window is admitted and opens a new window with count 1 at the
\* present time, however many of its requests were rejected before; a
\* rejection leaves the start of the window where it was.
C31_ReadmittedAfterWindow ==
    [][HandledStep =>
          LET ip == reqs[1].ip IN
          /\ ~InWindow(ip) =>
                /\ reqs'[1].status # 429
                /\ ip \in DOMAIN rate_limit_store'
                /\ rate_limit_store'[ip] = [count |-> 1, timestamp |-> now]
                /\ suspicious_ips' = suspicious_ips
          /\ reqs'[1].status = 429 =>
                /\ ip \in DOMAIN rate_limit_store'
                /\ rate_limit_store'[ip].timestamp = rate_limit_store[ip].timestamp]_vars

\* A client rejected in its old window has been admitted 61 seconds after
\* that window started, with a new window of count 1.
C31_Witness ==
    /\ Len(reqs) = 1
    /\ reqs[1].stage = "done"
    /\ reqs[1].status = 200
    /\ reqs[1].ip \in DOMAIN suspicious_ips
    /\ suspicious_ips[reqs[1].ip] >= 1
    /\ rate_limit_store[reqs[1].ip] = [count |-> 1, timestamp |-> now]
    /\ now = RATE_WINDOW + 1

\* C12: a /download request answered from a valid cache entry was served
\* without any extractor call: its handler queried no catalog before the
\* cache lookup (neither get_video_formats nor get_best_available_format).
C12_CacheHitWithoutExtractor ==
    \A r \in DOMAIN reqs :
        (reqs[r].kind = "download" /\ reqs[r].stage = "done" /\ reqs[r].cached)
            => \A i \in DOMAIN reqs[r].did :
                   reqs[r].did[i] \notin {"get_video_formats", "get_best_available_format"}

\* C13: get_video_formats returns on every extractor run (it never
\* raises), the list it returns is never empty, and its first element has
\* format_id 'best'.
C13_CatalogStartsWithBest ==
    query.at = "listed" =>
        /\ Len(query.catalog) >= 1
        /\ query.catalog[1].format_id = BEST

\* The parse found entries and 'best' was put in front of them.
C13_Witness ==
    /\ query.at = "listed"
    /\ query.run.how = "ok"
    /\ Len(query.catalog) >= 2
    /\ query.catalog[1].format_id = BEST
    /\ query.catalog[2].label = Unknown

\* The extractor call of the run failed: a non-zero exit status, an
\* exception at launch, or an exception while its output was parsed.
ExtractorFailed(run) ==
    \/ run.how \in {"rc_fail", "raises"}
    \/ ParseLines(run.lines, 1,
           [formats |-> <<>>, format_id |-> Unbound,
            resolution |-> Unknown, raised |-> FALSE]).raised

\* C14: whenever the extractor call fails (non-zero exit status, or an
\* exception while launching it or parsing its output), get_video_formats
\* returns exactly the one-entry catalog [best/Auto].
C14_FailureGivesAutoOnly ==
    (query.at = "listed" /\ ExtractorFailed(query.run))
        => query.catalog = <<Entry(BEST, Auto)>>

\* The cases of C14: the non-zero exit gives the one-entry catalog, the
\* exception gives the five-entry list.
C14_ExitStatusGivesAutoOnly ==
    /\ query.at = "listed"
    /\ query.run.how = "rc_fail"
    /\ query.catalog = <<Entry(BEST, Auto)>>

C14_ExceptionGivesFiveEntries ==
    /\ query.at = "listed"
    /\ query.run.how = "ok"
    /\ ExtractorFailed(query.run)
    /\ Len(query.catalog) = 5

\* The extractor call of the run succeeded and no entry was kept from its
\* output.
NoUsableEntry(run) ==
    /\ run.how = "ok"
    /\ ~ExtractorFailed(run)
    /\ ParseLines(run.lines, 1,
           [formats |-> <<>>, format_id |-> Unbound,
            resolution |-> Unknown, raised |-> FALSE]).formats = <<>>

\* C21, as claimed: when the extractor call succeeds but yields no usable
\* entry, get_video_formats returns the catalog of the 'best' entry alone.
C21_NoEntryGivesBestOnly ==
    (query.at = "listed" /\ NoUsableEntry(query.run))
        => query.catalog = <<Entry(BEST, Auto)>>

\* C21, amended: it returns the standard five-entry catalog, 'best' first,
\* then 137+140/1080p, 136+140/720p, 135+140/480p, 134+140/360p.
C21_NoEntryGivesStandardCatalog ==
    (query.at = "listed" /\ NoUsableEntry(query.run))
        => query.catalog =
              << Entry(BEST, Auto),
                 Entry(F137_140, <<"1", "0", "8", "0", "p">>),
                 Entry(F136_140, <<"7", "2", "0", "p">>),
                 Entry(F135_140, <<"4", "8", "0", "p">>),
                 Entry(F134_140, <<"3", "6", "0", "p">>) >>

\* The extractor printed an audio-only line and nothing else.
C21_Witness ==
    /\ query.at = "listed"
    /\ query.run = [how |-> "ok", lines |-> <<AudioLine>>]
    /\ NoUsableEntry(query.run)
    /\ Len(query.catalog) = 5

\* The height get_video_formats encoded in a label: "<height>p" (-1 for the
\* labels that carry no height: "Auto", "unknown", "4K").
EncodedHeight(label) ==
    LET n == Len(label) IN
    IF n >= 2 /\ label[n] = "p" /\ IntParses(SubSeq(label, 1, n - 1))
    THEN int(SubSeq(label, 1, n - 1))
    ELSE -1

\* C22: every non-best entry of the catalog get_video_formats returns
\* carries a label that denotes a height; a raw entry for which no
\* resolution can be read does not appear in the catalog.
C22_EntriesCarryHeight ==
    query.at = "listed" =>
        \A i \in DOMAIN query.catalog :
            query.catalog[i].format_id # BEST =>
                EncodedHeight(query.catalog[i].label) >= 0

\* The line "137 mp4 1920x1080 video only" gave entries labelled "unknown".
C22_UnknownLabelListed ==
    /\ query.at = "listed"
    /\ query.run = [how |-> "ok", lines |-> <<Line137>>]
    /\ \E i \in DOMAIN query.catalog :
           /\ query.catalog[i].format_id = <<"1", "3", "7">>
           /\ query.catalog[i].label = Unknown

\* The non-best entries of a catalog that have a height.
HeightEntries(catalog) ==
    {i \in DOMAIN catalog : /\ catalog[i].format_id # BEST
                            /\ EncodedHeight(catalog[i].label) >= 0}

Distance(a, h) == IF a > h THEN a - h ELSE h - a

\* Height a is preferred to height b for the target h: at or below h
\* against above h, else the nearer to h.
Preferred(a, b, h) ==
    \/ a <= h /\ b > h
    \/ (a <= h) = (b <= h) /\ Distance(a, h) < Distance(b, h)

\* C15: for a target height h, get_best_available_format returns the
\* format_id of the non-best catalog entry to which no other is preferred:
\* an entry at or below h beats every entry above h, and within each group
\* the entry nearest to h wins.
C15_NearestNotAboveWins ==
    query.at = "selected" =>
        LET c == query.catalog
            h == int(query.format_code)
        IN  HeightEntries(c) # {} =>
                \E i \in HeightEntries(c) :
                    /\ query.token = c[i].format_id
                    /\ \A j \in HeightEntries(c) :
                           ~Preferred(EncodedHeight(c[j].label),
                                      EncodedHeight(c[i].label), h)

\* Heights {360, 480, 720, 1080}, h = 700: the 480 entry is returned.
C15_Witness ==
    /\ query.at = "selected"
    /\ query.catalog = DefaultCatalog
    /\ query.format_code = <<"7", "0", "0">>
    /\ query.token = F135_140

\* Heights {360, 480, 720, 1080}, h = 2000: the 1080 entry is returned.
C15_AboveAll ==
    /\ query.at = "selected"
    /\ query.catalog = DefaultCatalog
    /\ query.format_code = <<"2", "0", "0", "0">>
    /\ query.token = F137_140

\* C24: when the catalog has no entry other than 'best' with a readable
\* height, get_best_available_format returns 'best' for every target height.
C24_NoHeightGivesBest ==
    (query.at = "selected" /\ HeightEntries(query.catalog) = {})
        => query.token = BEST

\* The catalog holds 'best' and entries labelled "unknown"; the target is
\* 700 and 'best' is returned.
C24_Witness ==
    /\ query.at = "selected"
    /\ Len(query.catalog) >= 2
    /\ HeightEntries(query.catalog) = {}
    /\ query.format_code = <<"7", "0", "0">>
    /\ query.token = BEST

\* C16: the height get_best_available_format reads back from a catalog
\* label equals the height get_video_formats encoded in it, for every label
\* of the catalog; and when the catalog has an entry of height exactly h, a
\* request for h resolves to an entry of height h.
C16_ReadBackIsEncodedHeight ==
    query.at = "selected" =>
        LET c == query.catalog
            h == int(query.format_code)
        IN  /\ \A i \in HeightEntries(c) :
                   /\ IntParses(LabelDigits(c[i].label))
                   /\ int(LabelDigits(c[i].label)) = EncodedHeight(c[i].label)
            /\ (\E i \in HeightEntries(c) : EncodedHeight(c[i].label) = h) =>
                   \E i \in HeightEntries(c) :
                       /\ EncodedHeight(c[i].label) = h
                       /\ query.token = c[i].format_id

\* The label "360p" of the default catalog is read back as 3.
C16_Label360ReadAs3 ==
    /\ query.at = "selected"
    /\ \E i \in HeightEntries(query.catalog) :
           /\ EncodedHeight(query.catalog[i].label) = 360
           /\ int(LabelDigits(query.catalog[i].label)) = 3

FormatIds(catalog) == {catalog[i].format_id : i \in DOMAIN catalog}

\* C17: for every format_code a caller can send, format resolution in
\* /download does not raise, and the token handed to download_with_retry is
\* format_code itself when it is a catalog format_id, a catalog format_id
\* chosen by nearest height when format_code is a bare integer, or "best".
C17_ResolutionNeverRaises ==
    query.at = "resolved" =>
        /\ query.token # ValueError
        /\ \/ /\ query.token = query.format_code
              /\ query.format_code \in FormatIds(query.catalog)
           \/ /\ isdigit(query.format_code)
              /\ query.token \in FormatIds(get_video_formats(query.run2))
           \/ query.token = BEST

\* format_code "\u00b2": isdigit() is true, int() raises ValueError.
C17_SuperscriptRaises ==
    /\ query.at = "resolved"
    /\ query.format_code = <<"SUPERSCRIPT TWO">>
    /\ query.token = ValueError

\* C18: two retrievals of different requests (different url or different
\* format_code) never write their output to the same path of the download
\* directory: no two cache entries of different keys refer to one path, and
\* no retrieval step writes to, or returns, a path that a cache entry of
\* another key refers to.
C18_RequestsKeepSeparatePaths ==
    /\ \A k1 \in DOMAIN video_cache, k2 \in DOMAIN video_cache :
           k1 # k2 => video_cache[k1].path # video_cache[k2].path
    /\ pc = "returned" =>
           \A k \in DOMAIN video_cache :
               video_cache[k].path = result => k = cache_key(url, format_code)

\* The retrieval of (url, "720") returned the <title>.mp4 that the cache
\* entry of (url, "best") refers to.
C18_SharedTitlePath ==
    /\ pc = "returned"
    /\ format_code = F720
    /\ result = TitlePath(url, 0)
    /\ cache_key(url, BEST) \in DOMAIN video_cache
    /\ video_cache[cache_key(url, BEST)].path = result

Old(p) == Exists(fs, p) /\ now - fs[p].mtime > SWEEP_AGE

SweepIteration == next_sweep' # next_sweep

\* C27, as claimed: a sweep iteration deletes exactly the files of the
\* download directory whose modification time is more than 7200 seconds
\* old, and leaves video_cache as it is.
C27_SweepDeletesExactlyOldFiles ==
    [][SweepIteration =>
          /\ video_cache' = video_cache
          /\ fs' = [p \in {q \in DOMAIN fs : ~Old(q)} |-> fs[p]]]_vars

\* C27, amended: a sweep iteration deletes only files whose modification
\* time is more than 7200 seconds old, all of them when none of its calls
\* raises and those removed before the exception when one does; it never
\* deletes or changes a file modified within the last 2 hours, and it never
\* touches video_cache.
C27_SweepDeletesOnlyOldFiles ==
    /\ [][SweepIteration =>
            /\ video_cache' = video_cache
            /\ DOMAIN fs' \subseteq DOMAIN fs
            /\ \A p \in DOMAIN fs' : fs'[p] = fs[p]
            /\ \A p \in DOMAIN fs : ~Old(p) => Exists(fs', p)]_vars
    /\ [][cleanup_old_files =>
            DOMAIN fs' = {q \in DOMAIN fs : ~Old(q)}]_vars

\* An iteration has just removed the file of a cache entry, more than 2
\* hours old, and kept a file exactly 7200 seconds old; the entry whose
\* file is gone is still in video_cache.
C27_Witness ==
    /\ next_sweep = now + SWEEP_INTERVAL
    /\ \E k \in DOMAIN video_cache : ~Exists(fs, video_cache[k].path)
    /\ \E p \in DOMAIN fs : now - fs[p].mtime = SWEEP_AGE

\* The step in which download_video_improved looks the request up in the
\* cache, and the entry of the request when its file is gone.
LookupStep == pc = "improved" /\ pc' # "improved"
EntryWithoutFile ==
    /\ cache_key(url, format_code) \in DOMAIN video_cache
    /\ ~Exists(fs, video_cache[cache_key(url, format_code)].path)

\* C28: however stores, sweep iterations and lookups interleave, a lookup
\* that returns a path returns one whose file exists at that moment; when
\* the file of the request's entry is gone (the sweep removes it after 2
\* hours, the entry expires after 24) the lookup is a miss, nothing is
\* raised and the attempt goes on into the retrieval strategies.
C28_LookupNeverReturnsAbsentFile ==
    [][LookupStep =>
          /\ pc' \in {"returned", "combined"}
          /\ pc' = "returned" => result' # NoPath /\ Exists(fs', result')
          /\ EntryWithoutFile =>
                pc' = "combined" /\ result' = NoPath /\ raised' = NoError]_vars

\* The sweep has removed the file of an entry that is not yet 24 hours
\* old, and the lookup for its key has missed and gone on to retrieve.
C28_Witness ==
    /\ pc = "combined"
    /\ Started
    /\ EntryWithoutFile
    /\ Fresh(video_cache[cache_key(url, format_code)], now)

\* A /download request is inside retrieval or inside a backoff sleep.
InRetrieval ==
    /\ \E d \in DOMAIN reqs : reqs[d].kind = "download" /\ reqs[d].stage = "running"
    /\ pc \in {"loop", "improved", "combined", "single", "separate", "remux",
               "simple", "direct", "failed", "sleep"}

\* Request r waits, and asks for the (url, format_code) of the request
\* whose retrieval is running.
WaitsForSamePair(r) ==
    /\ loop # 0
    /\ r # loop
    /\ reqs[r].kind = "download"
    /\ reqs[r].stage = "queued"
    /\ normalize_youtube_url(reqs[r].url) = normalize_youtube_url(reqs[loop].url)
    /\ reqs[r].fmt = reqs[loop].fmt

\* C29: there is no in-flight deduplication: while the retrieval of one
\* /download request is running and video_cache has no entry for its key,
\* a second /download request for the same (url, format_code) that has
\* arrived can be handled and start a retrieval of its own.
C29_OverlappingRequestsBothRetrieve ==
    \A r \in DOMAIN reqs :
        (/\ InRetrieval
         /\ WaitsForSamePair(r)
         /\ cache_key(url, format_code) \notin DOMAIN video_cache)
        => ENABLED download_youtube_video(r)

\* C9: while a /download request is inside retrieval or inside a backoff
\* sleep, every waiting request (/health, /formats, /download) can be
\* handled and a due sweep iteration can run: the event loop is not held.
C9_OthersProgressDuringRetrieval ==
    InRetrieval =>
        /\ \A r \in DOMAIN reqs : reqs[r].stage = "queued" => ENABLED Serve(r)
        /\ now >= next_sweep => ENABLED cleanup_old_files

\* The cases of C9 one by one: a /health request waits during a backoff
\* sleep, a /formats request waits during a retrieval strategy; neither can
\* be handled.
C9_HealthWaitsDuringSleep ==
    /\ InRetrieval
    /\ pc = "sleep"
    /\ \E r \in DOMAIN reqs :
         reqs[r].kind = "health" /\ reqs[r].stage = "queued" /\ ~ENABLED Serve(r)

C9_FormatsWaitsDuringStrategy ==
    /\ InRetrieval
    /\ pc \in {"combined", "single", "separate", "remux", "simple", "direct"}
    /\ \E r \in DOMAIN reqs :
         reqs[r].kind = "formats" /\ reqs[r].stage = "queued" /\ ~ENABLED Serve(r)

\* C10: a /download request whose returned path had no file when the
\* response was built is answered with status 404; 429 is the answer of a
\* rejected request only, and 500 that of a failed retrieval only.
C10_MissingFileAnswered404 ==
    \A r \in DOMAIN reqs :
        (reqs[r].kind = "download" /\ reqs[r].stage = "done" /\ reqs[r].missing)
            => reqs[r].status = 404

\* The case of C10: the file was missing at the response, and the status
\* that left is 500.
C10_MissingFileAnswered500 ==
    \E r \in DOMAIN reqs :
        /\ reqs[r].kind = "download"
        /\ reqs[r].stage = "done"
        /\ reqs[r].missing
        /\ reqs[r].status = 500

(***************************************************************************)
(* Properties of download_with_retry and the strategies.                   *)
(***************************************************************************)
Last(sq) == sq[Len(sq)]
Ops(sq) == [i \in DOMAIN sq |-> sq[i].op]
Sleeps == SelectSeq(log, LAMBDA e : e.op = "sleep")
Attempts == SelectSeq(log, LAMBDA e : e.op = "attempt")
Has(sq, o) == \E i \in DOMAIN sq : sq[i].op = o

\* The call has returned a path that a strategy produced (not a cache hit).
ReturnedByStrategy ==
    pc = "returned" /\ trace # <<>> /\ Last(trace).op # "cache_hit"

\* C1: every path returned after running a strategy names a file that
\* exists and has size greater than zero at the moment of return.
C1_ReturnedFileNonEmpty ==
    ReturnedByStrategy => Exists(fs, result) /\ GetSize(fs, result) > 0

\* C2: whenever a path obtained by a strategy is returned, video_cache
\* holds an entry for the key of (url, format_code) whose path is the
\* returned path, so an identical call made now is a cache hit.
C2_ReturnedPathCached ==
    ReturnedByStrategy =>
        /\ cache_key(url, format_code) \in DOMAIN video_cache
        /\ video_cache[cache_key(url, format_code)].path = result
        /\ get_cached_video(video_cache, fs, now, url, format_code) = result

\* C3: a call with max_retries = n >= 1 in which every attempt fails has
\* invoked download_video_improved exactly n times and raises the exception
\* of the n-th invocation.
C3_RaisesLastError ==
    (pc = "raised" /\ max_retries >= 1) =>
        /\ Len(Attempts) = max_retries
        /\ \A i \in DOMAIN Attempts : Attempts[i].arg = i
        /\ raised.att = max_retries
        /\ raised.msg # "TypeError"
        /\ raised # NoError

C3_Witness ==
    pc = "raised" /\ max_retries >= 2 /\ raised.att = 2

\* C4: a call that exhausts n >= 1 attempts has slept exactly n - 1 times,
\* and its last sleep is followed by an attempt.
C4_SleepsOnlyBetweenAttempts ==
    (pc = "raised" /\ max_retries >= 1) =>
        /\ Len(Sleeps) = max_retries - 1
        /\ Last(log).op # "sleep"

\* C5: the delay after the k-th failure is 2^k seconds, so the delays of
\* one call are strictly increasing.
C5_ExponentialBackoff ==
    /\ \A k \in DOMAIN Sleeps : Sleeps[k].arg = 2 ^ k
    /\ \A k \in DOMAIN Sleeps : k > 1 => Sleeps[k].arg > Sleeps[k - 1].arg
    /\ pc = "sleep" => wait_time = 2 ^ retry_count /\ retry_count = Len(Sleeps) + 1

C5_Witness ==
    Len(Sleeps) >= 2

StrategyRank(o) ==
    CASE o = "combined" -> 1
      [] o = "single_stream" -> 2
      [] o = "separate_tracks" -> 3
      [] o = "both_tracks" -> 4
      [] o = "ffmpeg" -> 5
      [] o = "simple" -> 6
      [] o = "direct" -> 7
      [] OTHER -> 0

RemuxerFailed ==
    /\ trace # <<>>
    /\ Last(trace).op = "ffmpeg"
    /\ Last(trace).arg \in {1, 2}

VideoSizeAtRemux == trace[Len(trace) - 1].arg

ReturnedVideoOnly ==
    /\ pc = "returned"
    /\ result = TitlePath(url, 0)
    /\ Exists(fs, result)
    /\ ~Exists(fs, TempVideo(url, ts))
    /\ ~Exists(fs, TempAudio(url, ts))

C32_NoTemporaryFileRemains ==
    /\ pc # "remux" => \A p \in DOMAIN fs : p[1] \notin {"video", "audio"}
    /\ pc = "returned" => result[1] \notin {"video", "audio"}

\* Both tracks were downloaded and the path has just ended by raising
\* after ffmpeg: the clean-up has removed both temporary files.
C32_Witness ==
    /\ pc \in {"simple", "direct"}
    /\ Has(trace, "both_tracks")
    /\ Last(trace).op = "ffmpeg"
    /\ ~Exists(fs, TempVideo(url, ts))
    /\ ~Exists(fs, TempAudio(url, ts))

\* C33: direct_youtube_download returns only a file created by its own
\* invocation: the path it returns (which download_video_improved caches
\* under the current format_code) names a file that was not in the
\* directory before the invocation, or a file under the invocation's own
\* download_<url_hash>_<timestamp> name; never a file that an earlier
\* invocation for the same url left under another timestamp.
C33_DirectReturnsOwnFile ==
    [][(pc = "direct" /\ pc' = "returned") =>
          \/ ~Exists(fs, result')
          \/ result' \in {DirectPath(url, now), StreamPath(url, now)}]_vars

\* A call of download_with_retry is running.
InCall == pc \notin {"idle", "returned", "raised"}

\* How far a running call is from its end: the attempts it may still
\* start, then the place inside the attempt.
StageRank ==
    CASE pc = "sleep" -> 12
      [] pc = "loop" -> 11
      [] pc = "improved" -> 10
      [] pc = "combined" -> 9
      [] pc = "single" -> 8
      [] pc = "separate" -> 7
      [] pc = "remux" -> 6
      [] pc = "simple" -> 5
      [] pc = "direct" -> IF dfmt # BEST THEN 4 ELSE 3
      [] pc = "failed" -> 2
      [] OTHER -> 0
CallRank == (max_retries - retry_count) * 16 + StageRank

Events(sq, o) == Cardinality({i \in DOMAIN sq : sq[i].op = o})

\* C34: every call of download_with_retry terminates, by returning or by
\* raising, when its external calls terminate: a running call can always
\* take a step (unless the bound on attempts of the run stops it before
\* an attempt), every step brings it nearer to its end, it makes at most
\* max_retries attempts, an attempt runs at most seven strategy steps, and
\* direct_youtube_download runs at most twice in an attempt, the second
\* time only after a format other than 'best' was switched to 'best'.
C34_CallTerminates ==
    /\ [][InCall => CallRank' < CallRank /\ CallRank' >= 0]_vars
    /\ [](InCall =>
            CASE pc = "loop" -> (ENABLED LoopTest) \/ attempts >= MaxAttempts
              [] pc = "failed" -> ENABLED AttemptFailed
              [] pc = "sleep" -> ENABLED Sleep
              [] pc = "improved" -> ENABLED ImprovedStart
              [] pc = "combined" -> ENABLED CombinedStep
              [] pc = "single" -> ENABLED SingleStep
              [] pc = "separate" -> ENABLED SeparateStep
              [] pc = "remux" -> ENABLED RemuxStep
              [] pc = "simple" -> ENABLED SimpleStep
              [] pc = "direct" -> ENABLED DirectStep
              [] OTHER -> FALSE)
    /\ [](/\ retry_count <= max_retries
          /\ Events(log, "attempt") <= max_retries
          /\ Len(trace) <= 7
          /\ Events(trace, "direct") <= 2
          /\ Events(trace, "direct") = 2 =>
                \E i \in DOMAIN trace :
                    /\ trace[i] = Event("direct", 1)
                    /\ trace[i + 1] = Event("direct", 0))

\* A call with max_retries = 2 has ended by raising after two attempts,
\* the last of which ran seven strategy steps, the direct command twice.
C34_Witness ==
    /\ pc = "raised"
    /\ max_retries = 2
    /\ Events(log, "attempt") = 2
    /\ Len(trace) = 7
    /\ Events(trace, "direct") = 2

\* C35: download_with_retry called with max_retries = 0 makes no retrieval
\* attempt, does not consult the cache, does not sleep and changes neither
\* the cache nor the directory; it ends by raising, with last_error still
\* None, an error (the TypeError of `raise None`) that is not the
\* exception of any attempt.
C35_ZeroRetriesRaisesWithoutAttempt ==
    /\ []((InCall /\ max_retries = 0) => pc = "loop")
    /\ []((pc \in {"loop", "raised"} /\ max_retries = 0) =>
            /\ log = <<>>
            /\ trace = <<>>
            /\ retry_count = 0
            /\ last_error = NoError)
    /\ []((pc = "raised" /\ max_retries = 0) =>
            /\ raised.msg = "TypeError"
            /\ raised.att = 0)
    /\ [][(pc = "loop" /\ max_retries = 0) =>
            /\ pc' = "raised"
            /\ UNCHANGED <<video_cache, fs, now, result>>]_vars

\* A call with max_retries = 0 has raised.
C35_Witness ==
    /\ pc = "raised"
    /\ max_retries = 0
    /\ raised.msg = "TypeError"
    /\ log = <<>>
====
